---- MODULE Spec2Model ----
(***************************************************************************)
(* Geospatial deconfliction engine of src/app.py: the part of the page     *)
(* script that turns the stored sites and links into map geometry          *)
(* (lines 862-1054): client filter, join of links with site coordinates,   *)
(* _spread_overlaps, _spread_overlapping_links, path / arrow construction  *)
(* and the map centre.                                                     *)
(*                                                                         *)
(* Numbers.  The program computes with IEEE doubles.  The model computes   *)
(* with exact rationals; float rounding is not modelled.  A number is a    *)
(* record [c, e] of two rationals and stands for  c + e * 10^-9 : the part *)
(* e carries the digits below the 8-decimal grouping precision, so that    *)
(* degrees and sub-precision residues both fit TLC's 32-bit integers.      *)
(* A missing value (SQL NULL, pandas NaN) is the number NaN.               *)
(***************************************************************************)
EXTENDS Integers, Sequences, FiniteSets, TLC

-----------------------------------------------------------------------------
(* Rationals <<n, d>> in lowest terms, d > 0.                              *)

Abs(n) == IF n < 0 THEN -n ELSE n

Sign(n) == IF n < 0 THEN -1 ELSE IF n > 0 THEN 1 ELSE 0

RECURSIVE GCD(_, _)
GCD(a, b) == IF b = 0 THEN a ELSE GCD(b, a % b)

QNorm(n, d) ==
    LET g == GCD(Abs(n), Abs(d))
    IN  IF d < 0 THEN <<(-n) \div g, (-d) \div g>> ELSE <<n \div g, d \div g>>

QZero == <<0, 1>>

QNeg(a) == <<-a[1], a[2]>>

QAbs(a) == <<Abs(a[1]), a[2]>>

QAdd(a, b) ==
    LET g == GCD(a[2], b[2])
    IN  QNorm(a[1] * (b[2] \div g) + b[1] * (a[2] \div g), (a[2] \div g) * b[2])

QSub(a, b) == QAdd(a, QNeg(b))

QMul(a, b) ==
    LET g1 == GCD(Abs(a[1]), b[2])
        g2 == GCD(Abs(b[1]), a[2])
    IN  IF a[1] = 0 \/ b[1] = 0 THEN QZero
        ELSE <<(a[1] \div g1) * (b[1] \div g2), (a[2] \div g2) * (b[2] \div g1)>>

QInv(a) == IF a[1] < 0 THEN <<-a[2], -a[1]>> ELSE <<a[2], a[1]>>

QDiv(a, b) == QMul(a, QInv(b))

QSign(a) == Sign(a[1])

QFloor(a) == a[1] \div a[2]

RECURSIVE QCmp(_, _)
\* -1, 0, 1 as a < b, a = b, a > b: by integer parts, then by the inverses
\* of the fractional parts (no product is formed)
QCmp(a, b) ==
    LET fa == QFloor(a)
        fb == QFloor(b)
        ra == a[1] - fa * a[2]
        rb == b[1] - fb * b[2]
    IN  IF fa # fb THEN (IF fa < fb THEN -1 ELSE 1)
        ELSE IF ra = 0 \/ rb = 0 THEN Sign(ra - rb)
        ELSE -QCmp(<<a[2], ra>>, <<b[2], rb>>)

QLt(a, b) == QCmp(a, b) < 0

-----------------------------------------------------------------------------
(* Numbers  c + e * 10^-9.                                                 *)

EpsInv == 10 ^ 9

NaN == [c |-> <<0, 0>>, e |-> <<0, 0>>]

notna(x) == x.c[2] # 0

Num(c, e) == [c |-> c, e |-> e]

R(n, d) == Num(QNorm(n, d), QZero)

I(n) == Num(<<n, 1>>, QZero)

NNeg(x) == IF notna(x) THEN Num(QNeg(x.c), QNeg(x.e)) ELSE NaN

NAdd(x, y) ==
    IF notna(x) /\ notna(y) THEN Num(QAdd(x.c, y.c), QAdd(x.e, y.e)) ELSE NaN

NSub(x, y) == NAdd(x, NNeg(y))

\* the product's 10^-18 term is folded into the e part
NMul(x, y) ==
    IF notna(x) /\ notna(y)
    THEN Num(QMul(x.c, y.c),
             QAdd(QAdd(QMul(x.c, y.e), QMul(x.e, y.c)),
                  QDiv(QMul(x.e, y.e), <<EpsInv, 1>>)))
    ELSE NaN

\* sign of c + e * 10^-9
NSign(x) ==
    IF QSign(x.e) = 0 \/ QSign(x.e) = QSign(x.c) THEN QSign(x.c)
    ELSE IF QSign(x.c) = 0 THEN QSign(x.e)
    ELSE IF QFloor(QDiv(QAbs(x.e), QAbs(x.c))) < EpsInv THEN QSign(x.c)
    ELSE IF QDiv(QAbs(x.e), QAbs(x.c)) = <<EpsInv, 1>> THEN 0
    ELSE QSign(x.e)

NLt(x, y) ==
    IF QSign(x.e) = 0 /\ QSign(y.e) = 0 THEN QLt(x.c, y.c)
    ELSE NSign(NSub(x, y)) < 0

NAbs(x) == IF NSign(x) < 0 THEN NNeg(x) ELSE x

NMax(x, y) == IF NLt(x, y) THEN y ELSE x

\* x / y: y without a sub-precision part, or x a rational multiple of y
NDiv(x, y) ==
    IF ~(notna(x) /\ notna(y)) THEN NaN
    ELSE IF QSign(y.e) = 0 THEN Num(QDiv(x.c, y.c), QDiv(x.e, y.c))
    ELSE IF QSign(y.c) = 0 /\ QSign(x.c) = 0 THEN Num(QDiv(x.e, y.e), QZero)
    ELSE IF QSign(y.c) # 0 /\ QMul(x.c, y.e) = QMul(x.e, y.c)
         THEN Num(QDiv(x.c, y.c), QZero)
    ELSE CHOOSE q \in {} : TRUE

-----------------------------------------------------------------------------
(* math.sqrt, math.sin, math.cos.                                          *)

RECURSIVE ISqrtIn(_, _, _)
ISqrtIn(m, lo, hi) ==
    IF lo >= hi THEN lo
    ELSE LET mid == (lo + hi + 1) \div 2
         IN  IF mid * mid <= m THEN ISqrtIn(m, mid, hi) ELSE ISqrtIn(m, lo, mid - 1)

\* floor of the square root of m
ISqrt(m) == ISqrtIn(m, 0, IF m < 46340 THEN m ELSE 46340)

\* s * unit when s is the root of m, else the root rounded down to 1/100
HypotPick(m, s, unit) ==
    IF s * s = m THEN QMul(<<s, 1>>, unit)
    ELSE QMul(QNorm(ISqrt(m * 10000), 100), unit)

\* sqrt(p^2 + q^2) * unit
HypotUnit(p, q, unit) == HypotPick(p * p + q * q, ISqrt(p * p + q * q), unit)

\* sqrt(A^2 + B^2) / L for integers A, B >= 0
HypotInt(A, B, L) ==
    IF A = 0 /\ B = 0 THEN QZero
    ELSE HypotUnit(A \div GCD(A, B), B \div GCD(A, B), QNorm(GCD(A, B), L))

\* least common multiple
LCM(a, b) == (a \div GCD(a, b)) * b

\* sqrt(a^2 + b^2) of two rationals: exact when it is rational, else rounded
\* down to 1/100 of the common unit of a and b
QHypot(a, b) ==
    HypotInt(Abs(a[1]) * (LCM(a[2], b[2]) \div a[2]),
             Abs(b[1]) * (LCM(a[2], b[2]) \div b[2]), LCM(a[2], b[2]))

\* math.sqrt(x**2 + y**2)
SqrtSumSq(x, y) ==
    IF QSign(x.e) = 0 /\ QSign(y.e) = 0 THEN Num(QHypot(x.c, y.c), QZero)
    ELSE IF QSign(x.c) = 0 /\ QSign(y.c) = 0 THEN Num(QZero, QHypot(x.e, y.e))
    ELSE IF NSign(y) = 0 THEN NAbs(x)
    ELSE IF NSign(x) = 0 THEN NAbs(y)
    ELSE CHOOSE q \in {} : TRUE

\* Bhaskara's rational approximation of the sine of h degrees, h in [0, 180]:
\* 4w / (40500 - w) with w = h (180 - h); exact at the multiples of 30 except
\* 60 and 120 (error below 0.2 %)
SinOfW(w) == QDiv(QMul(<<4, 1>>, w), QSub(<<40500, 1>>, w))

SinHalfTurn(h) == SinOfW(QMul(h, QSub(<<180, 1>>, h)))

\* sine of t degrees, t in [0, 360)
SinTurn(t) ==
    IF QLt(t, <<180, 1>>) THEN SinHalfTurn(t) ELSE QNeg(SinHalfTurn(QSub(t, <<180, 1>>)))

\* q - m * floor(q / m)
QMod(q, m) == QSub(q, <<m * QFloor(QDiv(q, <<m, 1>>)), 1>>)

\* math.sin of a rational angle in degrees
SinDeg(x) == SinTurn(QMod(x, 360))

CosDeg(x) == SinDeg(QAdd(x, <<90, 1>>))

\* math.cos(math.radians(lat)); a sub-precision part of lat changes the
\* cosine by less than a double's rounding near 0 and is left out
CosOfLat(lat) == Num(CosDeg(lat.c), QZero)

-----------------------------------------------------------------------------
(* Text: a string is a sequence of one-character strings.                  *)

\* code point order of the characters a link key is made of
Ord(ch) ==
    CASE ch = "," -> 44 [] ch = "-" -> 45 [] ch = "." -> 46 [] ch = ">" -> 62
      [] ch = "0" -> 48 [] ch = "1" -> 49 [] ch = "2" -> 50 [] ch = "3" -> 51
      [] ch = "4" -> 52 [] ch = "5" -> 53 [] ch = "6" -> 54 [] ch = "7" -> 55
      [] ch = "8" -> 56 [] ch = "9" -> 57

DigitChar(d) == <<"0", "1", "2", "3", "4", "5", "6", "7", "8", "9">>[d + 1]

RECURSIVE StrLt(_, _)
\* Python's str < str
StrLt(s, t) ==
    IF t = <<>> THEN FALSE
    ELSE IF s = <<>> THEN TRUE
    ELSE IF Head(s) # Head(t) THEN Ord(Head(s)) < Ord(Head(t))
    ELSE StrLt(Tail(s), Tail(t))

RECURSIVE IntStr(_)
\* decimal digits of n >= 0
IntStr(n) == IF n < 10 THEN <<DigitChar(n)>> ELSE IntStr(n \div 10) \o <<DigitChar(n % 10)>>

RECURSIVE PadStr(_, _)
\* the k low decimal digits of n, zero padded
PadStr(n, k) == IF k = 0 THEN <<>> ELSE PadStr(n \div 10, k - 1) \o <<DigitChar(n % 10)>>

RECURSIVE LongDiv(_, _, _, _)
\* k more digits of r / d after the point: <<digits so far as a number, remainder>>
LongDiv(acc, r, d, k) ==
    IF k = 0 THEN <<acc, r>>
    ELSE LongDiv(acc * 10 + (r * 10) \div d, (r * 10) % d, d, k - 1)

\* number of decimals of the link key's "{:.8f}"
KeyDecimals == 8

\* the text of sign, integer part ip and f units of the last decimal
FmtOut(neg, ip, f) ==
    (IF neg THEN <<"-">> ELSE <<>>)
    \o IntStr(IF f >= 10 ^ KeyDecimals THEN ip + 1 ELSE IF f < 0 THEN ip - 1 ELSE ip)
    \o <<".">>
    \o PadStr(IF f >= 10 ^ KeyDecimals THEN f - 10 ^ KeyDecimals
              ELSE IF f < 0 THEN f + 10 ^ KeyDecimals ELSE f, KeyDecimals)

\* rounding half to even: low units and the fraction fr of a unit
FmtRound(neg, ip, low, fr) ==
    FmtOut(neg, ip,
           IF QLt(<<1, 2>>, fr) \/ (fr = <<1, 2>> /\ low % 2 = 1) THEN low + 1 ELSE low)

\* digits units and t of a unit (t may exceed 1 or be negative)
FmtUnits(neg, ip, digits, t) ==
    FmtRound(neg, ip, digits + QFloor(t), QSub(t, <<QFloor(t), 1>>))

\* ld: the KeyDecimals digits of the fraction of c and the remainder over d
FmtRest(neg, ip, ld, d, e) ==
    FmtUnits(neg, ip, ld[1],
             QAdd(<<ld[2], d>>, QDiv(e, <<EpsInv \div (10 ^ KeyDecimals), 1>>)))

FmtAbs(neg, a) ==
    FmtRest(neg, QFloor(a.c), LongDiv(0, a.c[1] % a.c[2], a.c[2], KeyDecimals),
            a.c[2], a.e)

\* f"{x:.8f}": sign, integer digits, point, KeyDecimals digits of the exact
\* value rounded half to even
Fmt(x) == FmtAbs(NSign(x) < 0, NAbs(x))

\* f"{from_lat:.8f},{from_lon:.8f}->{to_lat:.8f},{to_lon:.8f}"
\* a variant of LinkKey that puts the two endpoints in the order of their text
LinkKeyAnyOrder(r) ==
    IF StrLt(Fmt(r.to_lat) \o <<",">> \o Fmt(r.to_lon),
             Fmt(r.from_lat) \o <<",">> \o Fmt(r.from_lon))
    THEN Fmt(r.to_lat) \o <<",">> \o Fmt(r.to_lon) \o <<"-", ">">>
         \o Fmt(r.from_lat) \o <<",">> \o Fmt(r.from_lon)
    ELSE Fmt(r.from_lat) \o <<",">> \o Fmt(r.from_lon) \o <<"-", ">">>
         \o Fmt(r.to_lat) \o <<",">> \o Fmt(r.to_lon)

\* a variant of LinkKey that leaves the longitudes out
LinkKeyLatOnly(r) == Fmt(r.from_lat) \o <<"-", ">">> \o Fmt(r.to_lat)

LinkKey(r) ==
    Fmt(r.from_lat) \o <<",">> \o Fmt(r.from_lon) \o <<"-", ">">>
    \o Fmt(r.to_lat) \o <<",">> \o Fmt(r.to_lon)

-----------------------------------------------------------------------------
(* Data frames: the column labels and the rows (records) in order.         *)

Frame(columns, rows) == [columns |-> columns, rows |-> rows]

\* pd.DataFrame(list of dicts): no rows, no columns
DataFrame(rows) == Frame(IF rows = <<>> THEN {} ELSE DOMAIN rows[1], rows)

empty(df) == df.rows = <<>> \/ df.columns = {}

RECURSIVE SelectRows(_, _)
\* the rows i of rows (in order) with keep[i]
SelectRows(rows, keep) ==
    IF rows = <<>> THEN <<>>
    ELSE LET rest == SelectRows(Tail(rows), [i \in 1..(Len(rows) - 1) |-> keep[i + 1]])
         IN  IF keep[1] THEN <<Head(rows)>> \o rest ELSE rest

RECURSIVE Concat(_)
\* concatenation of a sequence of sequences
Concat(ss) == IF ss = <<>> THEN <<>> ELSE Head(ss) \o Concat(Tail(ss))

-----------------------------------------------------------------------------
(* Stored data (PostgreSQL tables clients, sites, links; SCHEMA_SQL).      *)

MaxSites == 7
MaxLinks == 3

\* a coordinate 4 * 10^-9 degrees east of 0: below the key's 8 decimals
Delta == Num(QZero, <<4, 1>>)

\* rows of table sites; lat_dec / long_dec are nullable DOUBLE PRECISION
SiteCatalog ==
    << [site_id |-> "S1", site_name |-> "n1", lat_dec |-> I(0),  long_dec |-> I(0)],
       [site_id |-> "S2", site_name |-> "n2", lat_dec |-> I(0),  long_dec |-> I(0)],
       [site_id |-> "S3", site_name |-> "n3", lat_dec |-> I(0),  long_dec |-> I(1)],
       [site_id |-> "S4", site_name |-> "n4", lat_dec |-> I(0),  long_dec |-> Delta],
       [site_id |-> "S5", site_name |-> "n5", lat_dec |-> NaN,   long_dec |-> NaN],
       [site_id |-> "S6", site_name |-> "n6", lat_dec |-> I(84), long_dec |-> I(0)],
       [site_id |-> "S7", site_name |-> "n7", lat_dec |-> I(88), long_dec |-> I(20)],
       [site_id |-> "S8", site_name |-> "n8", lat_dec |-> I(0),  long_dec |-> I(0)],
       [site_id |-> "S9", site_name |-> "n9", lat_dec |-> NaN,   long_dec |-> NaN],
       [site_id |-> "S10", site_name |-> "n10", lat_dec |-> I(84), long_dec |-> I(0)],
       [site_id |-> "S11", site_name |-> "n11", lat_dec |-> NaN,  long_dec |-> I(0)],
       [site_id |-> "S12", site_name |-> "n12", lat_dec |-> NaN,  long_dec |-> I(0)] >>

\* (site_from, site_to) of the links that can be stored; the table holds
\* them in this order, any of them any number of times
Routes ==
    << <<"S3", "S1">>, <<"S1", "S2">>, <<"S4", "S1">>, <<"S1", "S3">>,
       <<"S1", "S4">>, <<"S1", "S5">>, <<"S6", "S7">> >>

\* rows of table clients
ClientRows ==
    << [client_id |-> 1, client_name |-> "c1"], [client_id |-> 2, client_name |-> "c2"] >>

\* the i-th row of table links (link_id is SERIAL); the attributes other than
\* the two sites are fixed by the row number
LinkRow(i, route) ==
    [link_id |-> i, appl_id |-> i + 100, client_id |-> 1 + ((i + 1) % 2),
     site_from |-> route[1], site_to |-> route[2],
     freq |-> 3700 + i, freq_pair |-> 5900 + i, bandwidth |-> 36, model |-> "m"]

\* q with x appended, for the x of S that are not below the last of q
Extend(Q, S) ==
    {Append(q, x) : <<q, x>> \in {qx \in Q \X S : qx[1] = <<>> \/ qx[1][Len(qx[1])] <= qx[2]}}

RECURSIVE SeqsUpTo(_, _)
\* the ascending sequences over S of length at most n
SeqsUpTo(S, n) ==
    IF n = 0 THEN {<<>>} ELSE {<<>>} \cup Extend(SeqsUpTo(S, n - 1), S)

Min(a, b) == IF a < b THEN a ELSE b

SiteIds(k) == {SiteCatalog[i].site_id : i \in 1..k}

-----------------------------------------------------------------------------
(* Join of the links with the site coordinates (lines 862-883).            *)

\* links_df[links_df["client_id"] == selected_client]; 0 stands for None
FilterClient(df, client) ==
    IF client # 0 /\ ~empty(df)
    THEN Frame(df.columns,
               SelectRows(df.rows, [i \in 1..Len(df.rows) |-> df.rows[i].client_id = client]))
    ELSE df

\* sites_df[site_cols] with lat_dec / long_dec renamed to lat / lon
SitesMin(df) ==
    Frame({"site_id", "site_name", "lat", "lon"},
          [i \in 1..Len(df.rows) |->
              [site_id |-> df.rows[i].site_id, site_name |-> df.rows[i].site_name,
               lat |-> df.rows[i].lat_dec, lon |-> df.rows[i].long_dec]])

\* a variant of SiteOf that joins the position a site is spread to: a site
\* that shares its coordinates with another one is taken 18 m to the east
SiteOfSpread(sites_min, id) ==
    LET hit == {i \in 1..Len(sites_min.rows) : sites_min.rows[i].site_id = id}
        at == sites_min.rows[CHOOSE i \in hit : TRUE]
    IN  IF hit = {} THEN [site_id |-> "", site_name |-> "", lat |-> NaN, lon |-> NaN]
        ELSE IF \E j \in 1..Len(sites_min.rows) :
                    /\ sites_min.rows[j].site_id # id
                    /\ sites_min.rows[j].lat = at.lat
                    /\ sites_min.rows[j].lon = at.lon
        THEN [at EXCEPT !.lon = NAdd(at.lon, R(18, 111320))]
        ELSE at

\* the columns a left merge adds for site id: the matching row of sites_min,
\* NaN / missing when no site has that id (site_id is the primary key)
SiteOf(sites_min, id) ==
    LET hit == {i \in 1..Len(sites_min.rows) : sites_min.rows[i].site_id = id}
    IN  IF hit = {} THEN [site_id |-> "", site_name |-> "", lat |-> NaN, lon |-> NaN]
        ELSE sites_min.rows[CHOOSE i \in hit : TRUE]

ClientNameOf(id) ==
    LET hit == {i \in 1..Len(ClientRows) : ClientRows[i].client_id = id}
    IN  IF hit = {} THEN "" ELSE ClientRows[CHOOSE i \in hit : TRUE].client_name

\* one row of links_df.merge(from_...).merge(to_...).merge(clients)
MergedRow(r, sites_min) ==
    LET f == SiteOf(sites_min, r.site_from)
        t == SiteOf(sites_min, r.site_to)
    IN  [link_id |-> r.link_id, appl_id |-> r.appl_id, client_id |-> r.client_id,
         site_from |-> r.site_from, site_to |-> r.site_to,
         freq |-> r.freq, freq_pair |-> r.freq_pair, bandwidth |-> r.bandwidth,
         model |-> r.model,
         from_site_id |-> f.site_id, from_site_name |-> f.site_name,
         from_lat |-> f.lat, from_lon |-> f.lon,
         to_site_id |-> t.site_id, to_site_name |-> t.site_name,
         to_lat |-> t.lat, to_lon |-> t.lon,
         client_name |-> ClientNameOf(r.client_id)]

MergedColumns ==
    {"link_id", "appl_id", "client_id", "site_from", "site_to", "freq", "freq_pair",
     "bandwidth", "model", "from_site_id", "from_site_name", "from_lat", "from_lon",
     "to_site_id", "to_site_name", "to_lat", "to_lon", "client_name"}

\* links_merge (left merges keep every row of links_df, in order)
LinksMerge(df, sites_min) ==
    Frame(MergedColumns, [i \in 1..Len(df.rows) |-> MergedRow(df.rows[i], sites_min)])

\* links_merge.dropna(subset=["from_lat", "from_lon", "to_lat", "to_lon"])
DropNa(df) ==
    Frame(df.columns,
          SelectRows(df.rows,
                     [i \in 1..Len(df.rows) |->
                         /\ notna(df.rows[i].from_lat) /\ notna(df.rows[i].from_lon)
                         /\ notna(df.rows[i].to_lat) /\ notna(df.rows[i].to_lon)]))

-----------------------------------------------------------------------------
(* _spread_overlapping_links (lines 919-1000).                             *)

\* metres per degree of latitude
lat_to_m == 111320

\* metres per degree of longitude at latitude lat_mid
lon_to_m(lat_mid) == NMul(I(lat_to_m), NMax(R(15, 100), CosOfLat(lat_mid)))

\* (lat1 + lat2) / 2 of the group's first row
lat_mid(first) == NDiv(NAdd(first.from_lat, first.to_lat), I(2))

dlat(first) == NSub(first.to_lat, first.from_lat)

dlon(first) == NSub(first.to_lon, first.from_lon)

\* sqrt((dlat * lat_to_m)**2 + (dlon * lon_to_m)**2), at least 1
AtLeastOne(len) == IF NLt(len, I(1)) THEN I(1) ELSE len

length_m(first) ==
    AtLeastOne(SqrtSumSq(NMul(dlat(first), I(lat_to_m)),
                         NMul(dlon(first), lon_to_m(lat_mid(first)))))

\* a variant of perp_lat without the sign: dlon * lon_to_m / length_m
perp_lat_same_side(first) ==
    NDiv(NMul(dlon(first), lon_to_m(lat_mid(first))), length_m(first))

perp_lat(first) ==
    NDiv(NMul(NNeg(dlon(first)), lon_to_m(lat_mid(first))), length_m(first))

perp_lon(first) == NDiv(NMul(dlat(first), I(lat_to_m)), length_m(first))

perp_lat_deg(first) == NDiv(perp_lat(first), I(lat_to_m))

\* a variant of perp_lon_deg that converts with lat_to_m
perp_lon_deg_lat(first) == NDiv(perp_lon(first), I(lat_to_m))

perp_lon_deg(first) == NDiv(perp_lon(first), lon_to_m(lat_mid(first)))

\* a variant of offset_idx that counts from 0: i
offset_idx_from_zero(i, n) == R(2 * i, 2)

\* a variant of offset_idx that is not centred: i - n / 2.0
offset_idx_half(i, n) == R(2 * i - n, 2)

\* i - (n - 1) / 2.0 for the i-th member (from 0) of a group of n
offset_idx(i, n) == R(2 * i - (n - 1), 2)

\* a variant of offset_distance that takes the default offset_m = 30.0 of the signature
offset_distance_default(i, n, offset_m) == NMul(offset_idx(i, n), I(30))

offset_distance(i, n, offset_m) == NMul(offset_idx(i, n), I(offset_m))

\* a variant of SingleRow that copies the from-endpoint into both offset endpoints
SingleRowFromOnly(r) ==
    r @@ [offset_from_lat |-> r.from_lat, offset_from_lon |-> r.from_lon,
          offset_to_lat |-> r.from_lat, offset_to_lon |-> r.from_lon]

\* the row of a group of one (lines 943-949)
SingleRow(r) ==
    r @@ [offset_from_lat |-> r.from_lat, offset_from_lon |-> r.from_lon,
          offset_to_lat |-> r.to_lat, offset_to_lon |-> r.to_lon]

\* a variant of OffsetRow that moves the from / to columns themselves as well
OffsetRowOverwriting(r, first, off_lat, off_lon) ==
    [r EXCEPT !.from_lat = NAdd(first.from_lat, off_lat),
              !.from_lon = NAdd(first.from_lon, off_lon),
              !.to_lat = NAdd(first.to_lat, off_lat),
              !.to_lon = NAdd(first.to_lon, off_lon)]
      

\* the row of a member of a group of n > 1 (lines 986-995)
OffsetRow(r, first, off_lat, off_lon) ==
    r @@ [offset_from_lat |-> NAdd(first.from_lat, off_lat),
          offset_from_lon |-> NAdd(first.from_lon, off_lon),
          offset_to_lat |-> NAdd(first.to_lat, off_lat),
          offset_to_lon |-> NAdd(first.to_lon, off_lon)]

\* the row of the i-th member (from 0) of a group of n > 1 (lines 981-995)
SpreadRow(r, first, i, n, offset_m, p_lat_deg, p_lon_deg) ==
    OffsetRow(r, first, NMul(offset_distance(i, n, offset_m), p_lat_deg),
              NMul(offset_distance(i, n, offset_m), p_lon_deg))

\* a variant of SpreadGroup that hands out the indices from the last member
\* to the first
SpreadGroupBackwards(rows, idx, offset_m, p_lat_deg, p_lon_deg) ==
    [j \in 1..Len(idx) |->
        SpreadRow(rows[idx[j]], rows[idx[1]], Len(idx) - j, Len(idx), offset_m,
                  p_lat_deg, p_lon_deg)]

\* the rows of a group of n > 1 (lines 951-995)
SpreadGroup(rows, idx, offset_m, p_lat_deg, p_lon_deg) ==
    [j \in 1..Len(idx) |->
        SpreadRow(rows[idx[j]], rows[idx[1]], j - 1, Len(idx), offset_m,
                  p_lat_deg, p_lon_deg)]

RECURSIVE SortStrs(_)
\* the strings of S in ascending order (groupby sorts the group keys)
SortStrs(S) ==
    IF S = {} THEN <<>>
    ELSE <<CHOOSE x \in S : \A y \in S \ {x} : StrLt(x, y)>>
         \o SortStrs(S \ {CHOOSE x \in S : \A y \in S \ {x} : StrLt(x, y)})

\* the positions of rows whose key is k, ascending
Members(keys, k) == SelectRows([i \in 1..Len(keys) |-> i], [i \in 1..Len(keys) |-> keys[i] = k])

\* a variant of LinkGroupRows that takes the perpendicular of the first row
\* of the frame for every group
LinkGroupRowsFromTop(rows, idx, offset_m) ==
    IF Len(idx) = 1 THEN <<SingleRow(rows[idx[1]])>>
    ELSE SpreadGroup(rows, idx, offset_m, perp_lat_deg(rows[1]), perp_lon_deg(rows[1]))

\* the rows new_rows gets for one group
LinkGroupRows(rows, idx, offset_m) ==
    IF Len(idx) = 1 THEN <<SingleRow(rows[idx[1]])>>
    ELSE SpreadGroup(rows, idx, offset_m,
                     perp_lat_deg(rows[idx[1]]), perp_lon_deg(rows[idx[1]]))

OffsetColumns == {"offset_from_lat", "offset_from_lon", "offset_to_lat", "offset_to_lon"}

\* the column _link_key of every row
LinkKeys(rows) == [i \in 1..Len(rows) |-> LinkKey(rows[i])]

Range(f) == {f[i] : i \in DOMAIN f}

\* new_rows: the groups in the order of their keys
LinkGroups(rows, keys, sorted, offset_m) ==
    Concat([g \in 1..Len(sorted) |->
               LinkGroupRows(rows, Members(keys, sorted[g]), offset_m)])

LinkRowsByKey(rows, keys, offset_m) ==
    LinkGroups(rows, keys, SortStrs(Range(keys)), offset_m)

\* the temporary column _link_key is dropped again at the end and is left out
_spread_overlapping_links(df, offset_m) ==
    IF empty(df) THEN df
    ELSE Frame(df.columns \cup OffsetColumns,
               LinkRowsByKey(df.rows, LinkKeys(df.rows), offset_m))

-----------------------------------------------------------------------------
(* _spread_overlaps (lines 885-913).                                       *)

\* sites_min with site_id / site_name renamed to id / name
SitesPoints(sites_min) ==
    Frame({"id", "name", "lat", "lon"},
          [i \in 1..Len(sites_min.rows) |->
              [id |-> sites_min.rows[i].site_id, name |-> sites_min.rows[i].site_name,
               lat |-> sites_min.rows[i].lat, lon |-> sites_min.rows[i].lon]])

\* order of the group keys (lat, lon): ascending, missing values last
CoordLt(x, y) == notna(x) /\ (~notna(y) \/ NLt(x, y))

PairLt(a, b) == CoordLt(a[1], b[1]) \/ (a[1] = b[1] /\ CoordLt(a[2], b[2]))

RECURSIVE SortPairs(_)
SortPairs(S) ==
    IF S = {} THEN <<>>
    ELSE <<CHOOSE x \in S : \A y \in S \ {x} : PairLt(x, y)>>
         \o SortPairs(S \ {CHOOSE x \in S : \A y \in S \ {x} : PairLt(x, y)})

\* the row of a member that is not moved (lines 895-898)
\* a variant of KeptSite that records every site as a group of one
KeptSiteAlone(r, n) == r @@ [orig_lat |-> r.lat, orig_lon |-> r.lon, group_size |-> 1]

KeptSite(r, n) == r @@ [orig_lat |-> r.lat, orig_lon |-> r.lon, group_size |-> n]

\* a variant of PlacedSite that records the moved position as the original
PlacedSiteMovedOrigin(r, n, d_lat, dlon_unit, ang) ==
    [id |-> r.id, name |-> r.name,
     lat |-> NAdd(r.lat, NMul(d_lat, Num(SinDeg(ang), QZero))),
     lon |-> NAdd(r.lon, NMul(dlon_unit, Num(CosDeg(ang), QZero))),
     orig_lat |-> NAdd(r.lat, NMul(d_lat, Num(SinDeg(ang), QZero))),
     orig_lon |-> NAdd(r.lon, NMul(dlon_unit, Num(CosDeg(ang), QZero))),
     group_size |-> n]

\* a variant of PlacedSite with the sine and the cosine exchanged
PlacedSiteSwapped(r, n, d_lat, dlon_unit, ang) ==
    [id |-> r.id, name |-> r.name,
     lat |-> NAdd(r.lat, NMul(d_lat, Num(CosDeg(ang), QZero))),
     lon |-> NAdd(r.lon, NMul(dlon_unit, Num(SinDeg(ang), QZero))),
     orig_lat |-> r.lat, orig_lon |-> r.lon, group_size |-> n]

\* lines 907-911: the member at angle ang (degrees)
PlacedSite(r, n, d_lat, dlon_unit, ang) ==
    [id |-> r.id, name |-> r.name,
     lat |-> NAdd(r.lat, NMul(d_lat, Num(SinDeg(ang), QZero))),
     lon |-> NAdd(r.lon, NMul(dlon_unit, Num(CosDeg(ang), QZero))),
     orig_lat |-> r.lat, orig_lon |-> r.lon, group_size |-> n]

\* dist_m / max(1e-6, 111320.0 * max(0.15, math.cos(lat_rad)))
DlonUnit(dist_m, lat) ==
    NDiv(I(dist_m),
         NMax(R(1, 1000000),
              NMul(I(lat_to_m),
                   NMax(R(15, 100), CosOfLat(IF notna(lat) THEN lat ELSE I(0))))))

\* a variant of SpreadSite that takes the default dist_m = 18.0 of the signature
SpreadSiteDefault(r, i, n, dist_m) ==
    PlacedSite(r, n, NDiv(I(18), I(lat_to_m)), DlonUnit(18, r.lat), QNorm(360 * i, n))

\* the row of the i-th member (from 0) of a group of n > 1 (lines 901-912);
\* the angle 2 pi i / n is 360 i / n degrees
SpreadSite(r, i, n, dist_m) ==
    PlacedSite(r, n, NDiv(I(dist_m), I(lat_to_m)), DlonUnit(dist_m, r.lat),
               QNorm(360 * i, n))

SiteGroupRows(rows, idx, dist_m, enabled) ==
    IF Len(idx) = 1 \/ ~enabled
    THEN [j \in 1..Len(idx) |-> KeptSite(rows[idx[j]], Len(idx))]
    ELSE [j \in 1..Len(idx) |-> SpreadSite(rows[idx[j]], j - 1, Len(idx), dist_m)]

\* a variant of SiteKeys that groups the sites by their latitude alone
SiteKeysLatOnly(rows) == [i \in 1..Len(rows) |-> <<rows[i].lat, rows[i].lat>>]

SiteKeys(rows) == [i \in 1..Len(rows) |-> <<rows[i].lat, rows[i].lon>>]

\* rows: the groups in the order of their keys
SiteGroups(rows, keys, sorted, dist_m, enabled) ==
    Concat([g \in 1..Len(sorted) |->
               SiteGroupRows(rows, Members(keys, sorted[g]), dist_m, enabled)])

SiteRowsByKey(rows, keys, dist_m, enabled) ==
    SiteGroups(rows, keys, SortPairs(Range(keys)), dist_m, enabled)

\* enabled is the global sep_dup the function reads
_spread_overlaps(df_sites, dist_m, enabled) ==
    IF empty(df_sites) THEN df_sites
    ELSE DataFrame(SiteRowsByKey(df_sites.rows, SiteKeys(df_sites.rows), dist_m, enabled))

-----------------------------------------------------------------------------
(* Paths, bearing and arrows (lines 1005-1041).                            *)

\* q rounded to the nearest multiple of 1 / scale
QRound(q, scale) == QNorm(QFloor(QAdd(QMul(q, <<scale, 1>>), <<1, 2>>)), scale)

\* math.sin / math.cos of an angle in degrees for the bearing: the angle is
\* rounded to 1/100 degree and the value to 1/100; an angle below the
\* grouping precision keeps its sign through the slope of the sine at 0
SinOf(x) ==
    IF QSign(x.c) = 0 THEN Num(QZero, QMul(<<4, 225>>, x.e))
    ELSE Num(QRound(SinDeg(QRound(x.c, 100)), 100), QZero)

CosOf(x) == Num(QRound(CosDeg(QRound(x.c, 100)), 100), QZero)

\* arctangent in degrees of z in [0, 1]: 45 z + 15.64 z (1 - z), to 1/1000
AtanDeg(z) ==
    QRound(QAdd(QMul(<<45, 1>>, z), QMul(<<391, 25>>, QMul(z, QSub(<<1, 1>>, z)))), 1000)

\* math.degrees(math.atan2(x, y)), in (-180, 180]
\* the angle in [0, 90] whose tangent is ax / ay, for ax, ay > 0
AtanQuadrant(ax, ay) ==
    IF QLt(ay, ax) THEN QSub(<<90, 1>>, AtanDeg(QRound(QDiv(ay, ax), 1000)))
    ELSE AtanDeg(QRound(QDiv(ax, ay), 1000))

\* atan2 from the signs sx, sy and the magnitudes ax, ay
Atan2Of(sx, sy, ax, ay) ==
    IF sx = 0 THEN (IF sy < 0 THEN <<180, 1>> ELSE QZero)
    ELSE IF sy = 0 THEN <<90 * sx, 1>>
    ELSE IF sy > 0 THEN QMul(<<sx, 1>>, AtanQuadrant(ax, ay))
    ELSE QMul(<<sx, 1>>, QSub(<<180, 1>>, AtanQuadrant(ax, ay)))

\* math.degrees(math.atan2(x, y)), in (-180, 180]; a value below the
\* grouping precision counts as 0 next to one that is not
Atan2Deg(x, y) ==
    Atan2Of(IF QSign(x.c) = 0 /\ QSign(y.c) # 0 THEN 0 ELSE NSign(x),
            IF QSign(y.c) = 0 /\ QSign(x.c) # 0 THEN 0 ELSE NSign(y),
            IF QSign(x.c) # 0 THEN QAbs(x.c) ELSE QAbs(x.e),
            IF QSign(y.c) # 0 THEN QAbs(y.c) ELSE QAbs(y.e))

\* a variant of BearingOf that returns the angle of atan2 as it is
BearingOfRaw(lat1, lat2, d_lon) ==
    Num(Atan2Deg(NMul(SinOf(d_lon), CosOf(lat2)),
                 NSub(NMul(CosOf(lat1), SinOf(lat2)),
                      NMul(NMul(SinOf(lat1), CosOf(lat2)), CosOf(d_lon)))), QZero)

\* lines 1016-1021 with dlon in degrees
BearingOf(lat1, lat2, d_lon) ==
    Num(QMod(QAdd(Atan2Deg(NMul(SinOf(d_lon), CosOf(lat2)),
                           NSub(NMul(CosOf(lat1), SinOf(lat2)),
                                NMul(NMul(SinOf(lat1), CosOf(lat2)), CosOf(d_lon)))),
                  <<360, 1>>), 360), QZero)

_bearing_deg(lat1, lon1, lat2, lon2) == BearingOf(lat1, lat2, NSub(lon2, lon1))

\* a variant of _interp_point that measures t from the second point
_interp_point_back(lat1, lon1, lat2, lon2, t) ==
    <<NAdd(lat2, NMul(NSub(lat1, lat2), t)), NAdd(lon2, NMul(NSub(lon1, lon2), t))>>

_interp_point(lat1, lon1, lat2, lon2, t) ==
    <<NAdd(lat1, NMul(NSub(lat2, lat1), t)), NAdd(lon1, NMul(NSub(lon2, lon1), t))>>

\* the "path" column of a row
PathOf(r) ==
    << <<r.offset_from_lon, r.offset_from_lat>>, <<r.offset_to_lon, r.offset_to_lat>> >>

\* the arrow of a row of links_paths (lines 1028-1040)
ArrowAt(p, ang, r) ==
    [lat |-> p[1], lon |-> p[2], angle |-> ang, label |-> "arrow", appl_id |-> r.appl_id]

\* a variant of ArrowOf computed from the original from / to coordinates
ArrowOfOriginal(r) ==
    ArrowAt(_interp_point(r.from_lat, r.from_lon, r.to_lat, r.to_lon, R(82, 100)),
            _bearing_deg(r.from_lat, r.from_lon, r.to_lat, r.to_lon), r)

ArrowOf(r) ==
    ArrowAt(_interp_point(r.offset_from_lat, r.offset_from_lon,
                          r.offset_to_lat, r.offset_to_lon, R(82, 100)),
            _bearing_deg(r.offset_from_lat, r.offset_from_lon,
                         r.offset_to_lat, r.offset_to_lon), r)

-----------------------------------------------------------------------------
(* Map centre (lines 1044-1054).                                           *)

RECURSIVE SumNum(_)
SumNum(xs) == IF xs = <<>> THEN I(0) ELSE NAdd(Head(xs), SumNum(Tail(xs)))

\* Series.mean(): missing values are skipped; the mean of nothing is NaN
MeanOf(ys) == IF ys = <<>> THEN NaN ELSE NDiv(SumNum(ys), I(Len(ys)))

Mean(xs) == MeanOf(SelectRows(xs, [i \in 1..Len(xs) |-> notna(xs[i])]))

\* the column col of the rows of df, as a sequence
Column(df, col) == [i \in 1..Len(df.rows) |-> df.rows[i][col]]

\* (center_lat, center_lon) of pd.concat of the three coordinate frames
CenterOfCoords(lats, lons) ==
    IF lats = <<>> THEN <<R(-5, 2), I(118)>> ELSE <<Mean(lats), Mean(lons)>>

CenterOf(sites_points, paths) ==
    CenterOfCoords(Column(sites_points, "lat") \o Column(paths, "offset_from_lat")
                       \o Column(paths, "offset_to_lat"),
                   Column(sites_points, "lon") \o Column(paths, "offset_from_lon")
                       \o Column(paths, "offset_to_lon"))

-----------------------------------------------------------------------------
(* The tables of SCHEMA_SQL (lines 42-67) and the statements the dialogs    *)
(* and the CSV import send through run_sql. A text is a sequence of         *)
(* characters; a database is a record of the three tables (sets of rows)   *)
(* and the last values of the two SERIAL sequences.                         *)

\* the largest id a SERIAL sequence has handed out when an insert starts
MaxRowId == 2

\* client_name VARCHAR(100)
client_name_limit == 100

\* site_id VARCHAR(50)
site_id_limit == 50

\* None / SQL NULL / an empty CSV field (NaN)
NULL == <<"NULL">>

EmptyDb ==
    [clients |-> {}, sites |-> {}, links |-> {}, clients_seq |-> 0, links_seq |-> 0]

\* run_sql (lines 75-90): the statement is committed, or it raises and
\* nothing of it is committed
Committed(d) == [db |-> d, ok |-> TRUE]

Raises(d) == [db |-> d, ok |-> FALSE]

MaxId(S) == CHOOSE m \in S : \A x \in S : x <= m

RECURSIVE lstrip(_)
lstrip(s) == IF s # <<>> /\ Head(s) = " " THEN lstrip(Tail(s)) ELSE s

RECURSIVE rstrip(_)
rstrip(s) ==
    IF s # <<>> /\ s[Len(s)] = " " THEN rstrip(SubSeq(s, 1, Len(s) - 1)) ELSE s

\* str.strip()
strip(s) == rstrip(lstrip(s))

\* INSERT INTO clients(client_name): client_id is nextval of the sequence,
\* which stays advanced when the statement raises (a value over
\* VARCHAR(100), or an id that is already a primary key)
InsertClientAs(d, id, name) ==
    IF Len(name) > client_name_limit \/ \E c \in d.clients : c.client_id = id
    THEN Raises([d EXCEPT !.clients_seq = id])
    ELSE Committed([d EXCEPT !.clients_seq = id,
                             !.clients = @ \cup {[client_id |-> id, client_name |-> name]}])

INSERT_clients(d, name) == InsertClientAs(d, d.clients_seq + 1, name)

\* setval(sequence, COALESCE(MAX(client_id), 0), true): 0 is below the
\* sequence's minimum 1, so on an empty table setval raises, which is ignored
reseed_clients_id_sequence(d) ==
    IF d.clients = {} THEN d
    ELSE [d EXCEPT !.clients_seq = MaxId({c.client_id : c \in d.clients})]

reseed_links_id_sequence(d) ==
    IF d.links = {} THEN d
    ELSE [d EXCEPT !.links_seq = MaxId({l.link_id : l \in d.links})]

\* UPDATE clients SET client_name WHERE client_id
UPDATE_clients(d, id, name) ==
    IF Len(name) > client_name_limit THEN Raises(d)
    ELSE Committed([d EXCEPT !.clients =
                       {IF c.client_id = id THEN [c EXCEPT !.client_name = name] ELSE c
                           : c \in @}])

\* a variant of DELETE_clients without the foreign key of links
DELETE_clients_unchecked(d, id) ==
    Committed([d EXCEPT !.clients = {c \in @ : c.client_id # id}])

\* DELETE FROM clients WHERE client_id: links.client_id REFERENCES clients
DELETE_clients(d, id) ==
    IF \E l \in d.links : l.client_id = id THEN Raises(d)
    ELSE Committed([d EXCEPT !.clients = {c \in @ : c.client_id # id}])

\* INSERT INTO sites: site_id is the primary key, VARCHAR(50)
INSERT_sites(d, site_id, lat, lon) ==
    IF Len(site_id) > site_id_limit \/ \E s \in d.sites : s.site_id = site_id
    THEN Raises(d)
    ELSE Committed([d EXCEPT !.sites =
                       @ \cup {[site_id |-> site_id, lat_dec |-> lat, long_dec |-> lon]}])

\* UPDATE sites SET ..., lat_dec, long_dec WHERE site_id
UPDATE_sites(d, site_id, lat, lon) ==
    Committed([d EXCEPT !.sites =
                  {IF s.site_id = site_id
                   THEN [s EXCEPT !.lat_dec = lat, !.long_dec = lon] ELSE s : s \in @}])

\* DELETE FROM sites WHERE site_id: links.site_from / site_to REFERENCES sites
DELETE_sites(d, site_id) ==
    IF \E l \in d.links : l.site_from = site_id \/ l.site_to = site_id THEN Raises(d)
    ELSE Committed([d EXCEPT !.sites = {s \in @ : s.site_id # site_id}])

\* the foreign keys of a row of links hold in d
References(d, client_id, site_from, site_to) ==
    /\ \E c \in d.clients : c.client_id = client_id
    /\ \E s \in d.sites : s.site_id = site_from
    /\ \E s \in d.sites : s.site_id = site_to

\* INSERT INTO links(appl_id, client_id, site_from, site_to, ...): link_id is
\* nextval of the sequence
InsertLinkAs(d, id, appl_id, client_id, site_from, site_to) ==
    IF \/ \E l \in d.links : l.link_id = id
       \/ (appl_id # NULL /\ Len(appl_id) > site_id_limit)
       \/ ~References(d, client_id, site_from, site_to)
    THEN Raises([d EXCEPT !.links_seq = id])
    ELSE Committed([d EXCEPT !.links_seq = id,
                             !.links = @ \cup {[link_id |-> id, appl_id |-> appl_id,
                                                client_id |-> client_id,
                                                site_from |-> site_from,
                                                site_to |-> site_to]}])

INSERT_links(d, appl_id, client_id, site_from, site_to) ==
    InsertLinkAs(d, d.links_seq + 1, appl_id, client_id, site_from, site_to)

\* UPDATE links SET appl_id, client_id, site_from, site_to, ... WHERE link_id
UPDATE_links(d, id, appl_id, client_id, site_from, site_to) ==
    IF (\E l \in d.links : l.link_id = id)
       /\ ~References(d, client_id, site_from, site_to)
    THEN Raises(d)
    ELSE Committed([d EXCEPT !.links =
                       {IF l.link_id = id
                        THEN [l EXCEPT !.appl_id = appl_id, !.client_id = client_id,
                                       !.site_from = site_from, !.site_to = site_to]
                        ELSE l : l \in @}])

\* DELETE FROM links WHERE link_id
DELETE_links(d, id) == Committed([d EXCEPT !.links = {l \in @ : l.link_id # id}])

-----------------------------------------------------------------------------

(* The dialogs (lines 208-599): what one click on "Simpan" / "Hapus" does  *)
(* to the database d. The outcome says whether success was reported (and   *)
(* so the cache cleared), how many INSERTs were tried and whether setval   *)
(* was done in between.                                                     *)

\* st.error and return before any statement
Rejected(d) == [db |-> d, ok |-> FALSE, attempts |-> 0, reseeded |-> FALSE]

\* one statement in try / except
Tried(res) == [db |-> res.db, ok |-> res.ok, attempts |-> 1, reseeded |-> FALSE]

\* the second INSERT, after the first one raised and the reseed was called
TriedAgain(res, reseeded) ==
    [db |-> res.db, ok |-> res.ok, attempts |-> 2, reseeded |-> reseeded]

\* a variant of dlg_add_client that repeats the INSERT whatever the first did
dlg_add_client_twice(d, name) ==
    IF strip(name) = <<>> THEN Rejected(d)
    ELSE TriedAgain(INSERT_clients(
                        reseed_clients_id_sequence(INSERT_clients(d, strip(name)).db),
                        strip(name)),
                    INSERT_clients(d, strip(name)).db.clients # {})

dlg_add_client(d, name) ==
    IF strip(name) = <<>> THEN Rejected(d)
    ELSE IF INSERT_clients(d, strip(name)).ok THEN Tried(INSERT_clients(d, strip(name)))
    ELSE TriedAgain(INSERT_clients(
                        reseed_clients_id_sequence(INSERT_clients(d, strip(name)).db),
                        strip(name)),
                    INSERT_clients(d, strip(name)).db.clients # {})

dlg_edit_client(d, edit_id, new_name) ==
    IF strip(new_name) = <<>> THEN Rejected(d)
    ELSE Tried(UPDATE_clients(d, edit_id, strip(new_name)))

\* the dialog is opened with del_ids = [int(edit_pick)] (line 325)
dlg_delete_clients(d, cid) == Tried(DELETE_clients(d, cid))

\* lat and lon come from st.number_input: floats, never None
_valid_latlon(lat, lon) == -90 <= lat /\ lat <= 90 /\ -180 <= lon /\ lon <= 180

\* site_name_in gets the text of site_id_in here
dlg_add_site(d, site_id_in, lat_in, lon_in) ==
    IF strip(site_id_in) = <<>> \/ ~_valid_latlon(lat_in, lon_in) THEN Rejected(d)
    ELSE Tried(INSERT_sites(d, strip(site_id_in), lat_in, lon_in))

dlg_edit_site(d, sid, slat, slon) ==
    IF ~_valid_latlon(slat, slon) THEN Rejected(d)
    ELSE Tried(UPDATE_sites(d, sid, slat, slon))

\* the dialog is opened with del_sids = [pick_site] (line 476)
dlg_delete_sites(d, sid) == Tried(DELETE_sites(d, sid))

dlg_add_link(d, appl_id, client_id, site_from, site_to) ==
    IF strip(appl_id) = <<>> THEN Rejected(d)
    ELSE IF INSERT_links(d, strip(appl_id), client_id, site_from, site_to).ok
    THEN Tried(INSERT_links(d, strip(appl_id), client_id, site_from, site_to))
    ELSE TriedAgain(
             INSERT_links(
                 reseed_links_id_sequence(
                     INSERT_links(d, strip(appl_id), client_id, site_from, site_to).db),
                 strip(appl_id), client_id, site_from, site_to),
             d.links # {})

dlg_edit_link(d, link_id, appl_id, client_id, site_from, site_to) ==
    IF strip(appl_id) = <<>> THEN Rejected(d)
    ELSE Tried(UPDATE_links(d, link_id, strip(appl_id), client_id, site_from, site_to))

\* the dialog is opened with del_ids = [int(pick_link)] (line 679)
dlg_delete_links(d, lid) == Tried(DELETE_links(d, lid))

-----------------------------------------------------------------------------

(* The CSV import (lines 684-857). A row of the file has the columns the   *)
(* import reads; an empty field is NULL (NaN).                              *)

\* the rows uploaded files are made of: a link A -> B of client c1, the same
\* link for client c2 without APPL_ID, a link from B at latitude 95,
\* and a link whose FREQ is not a number
CsvRowCatalog ==
    << [CLNT_NAME |-> <<"c", "1">>, STN_NAME |-> <<"A">>, LAT_DEC |-> 0, LONG_DEC |-> 0,
        STASIUN_LAWAN |-> <<"B">>, TO_LAT_DEC |-> 0, TO_LONG_DEC |-> 1,
        APPL_ID |-> <<"7">>, FREQ |-> <<"3", "7">>],
       [CLNT_NAME |-> <<"c", "2">>, STN_NAME |-> <<"A">>, LAT_DEC |-> 0, LONG_DEC |-> 0,
        STASIUN_LAWAN |-> <<"B">>, TO_LAT_DEC |-> 0, TO_LONG_DEC |-> 1,
        APPL_ID |-> NULL, FREQ |-> <<"3", "7">>],
       [CLNT_NAME |-> <<"c", "1">>, STN_NAME |-> <<"B", " ">>, LAT_DEC |-> 95, LONG_DEC |-> 0,
        STASIUN_LAWAN |-> <<"A">>, TO_LAT_DEC |-> 0, TO_LONG_DEC |-> 0,
        APPL_ID |-> <<"8">>, FREQ |-> NULL],
       [CLNT_NAME |-> <<"c", "1">>, STN_NAME |-> <<"B">>, LAT_DEC |-> 0, LONG_DEC |-> 1,
        STASIUN_LAWAN |-> <<"A">>, TO_LAT_DEC |-> 0, TO_LONG_DEC |-> 0,
        APPL_ID |-> <<"9">>, FREQ |-> <<"x">>] >>

\* the uploaded files, by the numbers of their rows: each row alone, the
\* first two together, and the first with the row that cannot be converted
CsvFiles == {<<i>> : i \in DOMAIN CsvRowCatalog} \cup {<<1, 2>>, <<1, 4>>}

CsvRows(file) == [i \in 1..Len(file) |-> CsvRowCatalog[file[i]]]

\* the elements of seq whose key occurs at no earlier position
KeepFirst(seq, keys) ==
    SelectRows(seq, [i \in 1..Len(seq) |-> \A j \in 1..(i - 1) : keys[j] # keys[i]])

\* import_df["CLNT_NAME"].dropna().unique()
unique_clients(rows) ==
    KeepFirst(SelectRows([i \in 1..Len(rows) |-> rows[i].CLNT_NAME],
                         [i \in 1..Len(rows) |-> rows[i].CLNT_NAME # NULL]),
              SelectRows([i \in 1..Len(rows) |-> rows[i].CLNT_NAME],
                         [i \in 1..Len(rows) |-> rows[i].CLNT_NAME # NULL]))

\* concat([sites_from, sites_to])
SitesFromTo(rows) ==
    [i \in 1..Len(rows) |->
        [site_name |-> rows[i].STN_NAME, lat |-> rows[i].LAT_DEC, lon |-> rows[i].LONG_DEC]]
    \o [i \in 1..Len(rows) |->
        [site_name |-> rows[i].STASIUN_LAWAN, lat |-> rows[i].TO_LAT_DEC,
         lon |-> rows[i].TO_LONG_DEC]]

\* .drop_duplicates(subset=["site_name"])
all_sites(rows) ==
    KeepFirst(SitesFromTo(rows),
              [i \in 1..(2 * Len(rows)) |-> SitesFromTo(rows)[i].site_name])

\* str(x) of a field
Str(x) == IF x = NULL THEN <<"n", "a", "n">> ELSE x

\* int(x) of a text returns: the text is made of digits
IntParses(x) ==
    x # <<>> /\ \A i \in 1..Len(x) : x[i] \in {DigitChar(n) : n \in 0..9}

\* the import so far: the database, whether no exception was raised, and
\* client_id_map as pairs <<name, id>>
WithResult(st, res) == [st EXCEPT !.db = res.db, !.ok = res.ok]

\* SELECT client_id FROM clients WHERE client_name = %s, fetch one: the row
\* with the least id (no ORDER BY is given; PostgreSQL scans in stored order)
ClientIdOf(d, name) == 
    CHOOSE id \in {c.client_id : c \in {x \in d.clients : x.client_name = name}} :
        \A c \in d.clients : c.client_name = name => id <= c.client_id

Mapped(st, cname) ==
    IF st.ok THEN [st EXCEPT !.ids = @ \cup {<<cname, ClientIdOf(st.db, cname)>>}]
    ELSE st

\* lines 757-777
ImportClient(st, cname) ==
    IF ~st.ok THEN st
    ELSE IF \E c \in st.db.clients : c.client_name = cname THEN Mapped(st, cname)
    ELSE Mapped(WithResult(st, INSERT_clients(reseed_clients_id_sequence(st.db), cname)),
                cname)

RECURSIVE ImportClients(_, _)
ImportClients(st, names) ==
    IF names = <<>> THEN st
    ELSE ImportClients(ImportClient(st, Head(names)), Tail(names))

\* lines 786-805
ImportSite(st, s) ==
    IF ~st.ok THEN st
    ELSE IF \E x \in st.db.sites : x.site_id = strip(Str(s.site_name)) THEN st
    ELSE WithResult(st, INSERT_sites(st.db, strip(Str(s.site_name)), s.lat, s.lon))

RECURSIVE ImportSites(_, _)
ImportSites(st, sites) ==
    IF sites = <<>> THEN st
    ELSE ImportSites(ImportSite(st, Head(sites)), Tail(sites))

\* client_id_map.get(client_name) if client_name else None; 0 for None
ClientOf(ids, name) ==
    IF \E p \in ids : p[1] = name THEN (CHOOSE p \in ids : p[1] = name)[2] ELSE 0

\* str(...).strip() if pd.notna(...) else None; "" for None
SiteText(x) == IF x = NULL THEN <<>> ELSE strip(x)

\* SELECT link_id FROM links WHERE appl_id = %s AND site_from = %s AND
\* site_to = %s: a comparison with NULL is never true
LinkExists(d, appl_id, site_from, site_to) ==
    \E l \in d.links :
        /\ l.appl_id # NULL /\ appl_id # NULL /\ l.appl_id = appl_id
        /\ l.site_from = site_from /\ l.site_to = site_to

\* lines 826-843
StoreLink(st, appl_id, client_id, site_from, site_to) ==
    IF site_from = <<>> \/ site_to = <<>> \/ client_id = 0 THEN st
    ELSE IF LinkExists(st.db, appl_id, site_from, site_to) THEN st
    ELSE WithResult(st, INSERT_links(reseed_links_id_sequence(st.db),
                                     appl_id, client_id, site_from, site_to))

\* str(APPL_ID): read_csv makes a column of numbers with an empty field a
\* column of floats, and str of a float ends in ".0"
ApplText(x, floats) ==
    IF x = NULL THEN NULL ELSE IF floats THEN x \o <<".", "0">> ELSE x

\* lines 815-843: int(FREQ) is evaluated before the row can be skipped
ImportLink(st, row, floats) ==
    IF ~st.ok THEN st
    ELSE IF row.FREQ # NULL /\ ~IntParses(row.FREQ) THEN [st EXCEPT !.ok = FALSE]
    ELSE StoreLink(st, ApplText(row.APPL_ID, floats), ClientOf(st.ids, row.CLNT_NAME),
                   SiteText(row.STN_NAME), SiteText(row.STASIUN_LAWAN))

RECURSIVE ImportLinks(_, _, _)
ImportLinks(st, rows, floats) ==
    IF rows = <<>> THEN st
    ELSE ImportLinks(ImportLink(st, Head(rows), floats), Tail(rows), floats)

\* the state the import ends in, by success or by the first exception
ImportAll(d, rows) ==
    ImportLinks(
        ImportSites(
            ImportClients([db |-> d, ok |-> TRUE, ids |-> {}], unique_clients(rows)),
            all_sites(rows)),
        rows, \E i \in 1..Len(rows) : rows[i].APPL_ID = NULL)

\* lines 749-857: st.success and load_data.clear() only when no statement
\* and no conversion raised
csv_import(d, rows) ==
    [db |-> ImportAll(d, rows).db, ok |-> ImportAll(d, rows).ok,
     attempts |-> 0, reseeded |-> FALSE]

-----------------------------------------------------------------------------

(* One run of the page script over the loaded tables.                      *)

VARIABLES
    sites_df,         \* load_data: table sites
    links_df,         \* load_data: table links
    selected_client,  \* sidebar: client filter, 0 for None ("Semua")
    sep_dup,          \* sidebar: separate sites with equal coordinates
    sep_dist_m,       \* sidebar: separation of the sites in metres
    link_offset_m,    \* sidebar: distance between overlapping link lines
    pc,               \* position of the script
    raised,           \* the exception that ended the run, "" for none
    links_merge,      \* links joined with the site coordinates
    sites_vis,        \* result of _spread_overlaps
    links_paths,      \* result of _spread_overlapping_links, then with "path"
    arrows_df,        \* the arrows
    center,           \* <<center_lat, center_lon>>
    site_markers,     \* the site markers added to the folium map
    call,             \* a call of _bearing_deg or _interp_point on its own
    db,               \* the PostgreSQL database: tables and sequences
    ui                \* the session: the cache of load_data, the last action

vars ==
    <<sites_df, links_df, selected_client, sep_dup, sep_dist_m, link_offset_m, pc,
      raised, links_merge, sites_vis, links_paths, arrows_df, center, site_markers,
      call, db, ui>>

\* st.cache_data of load_data: nothing cached
NoCache == [loaded |-> FALSE, clients |-> {}, sites |-> {}, links |-> {}]

\* a session in which nothing was done yet
NoSession ==
    [cache |-> NoCache, op |-> "", notice |-> "", attempts |-> 0, reseeded |-> FALSE,
     imported |-> <<>>]

\* no call of _bearing_deg / _interp_point on its own
NoCall == [fn |-> "none"]

NoFrame == Frame({}, <<>>)

\* the sidebar settings of a run (lines 162-198): the client is None or one
\* of the stored clients, sep_dist_m is in 5..50, link_offset_m in 10..100
SidebarChoices ==
    { [client |-> 0, dup |-> TRUE,  dist |-> 18, offset |-> 25],
      [client |-> 1, dup |-> TRUE,  dist |-> 18, offset |-> 25],
      [client |-> 2, dup |-> TRUE,  dist |-> 18, offset |-> 25],
      [client |-> 0, dup |-> FALSE, dist |-> 18, offset |-> 25],
      [client |-> 0, dup |-> TRUE,  dist |-> 5,  offset |-> 25],
      [client |-> 0, dup |-> TRUE,  dist |-> 50, offset |-> 25],
      [client |-> 0, dup |-> TRUE,  dist |-> 18, offset |-> 10],
      [client |-> 0, dup |-> TRUE,  dist |-> 18, offset |-> 100] }

\* the stored tables: the first k <= n sites of the catalogue and at most
\* MaxLinks links between stored sites (site_from / site_to are foreign keys)
\* the first k sites of the catalogue with up to m links between them
StoredWith(k, m) ==
    /\ sites_df = DataFrame(SubSeq(SiteCatalog, 1, k))
    /\ \E routes \in SeqsUpTo({r \in DOMAIN Routes : Routes[r][1] \in SiteIds(k)
                                                      /\ Routes[r][2] \in SiteIds(k)}, m) :
          links_df = DataFrame([i \in 1..Len(routes) |-> LinkRow(i, Routes[routes[i]])])

StoredUpTo(n) == \E k \in 0..n : StoredWith(k, MaxLinks)

Stored == StoredUpTo(Min(MaxSites, Len(SiteCatalog)))

\* the number of sites of the inputs with one link more than MaxLinks
TwoWaySites == 3

\* the arguments of the calls: every number of sites, up to the whole
\* catalogue, with no link or one, the MaxSites first sites with up to
\* MaxLinks links, and the first TwoWaySites sites with up to one link more
CallArguments ==
    \/ \E k \in 0..Len(SiteCatalog) : StoredWith(k, 1)
    \/ StoredWith(Min(MaxSites, Len(SiteCatalog)), MaxLinks)
    \/ StoredWith(TwoWaySites, MaxLinks + 1)

Init ==
    /\ Stored
    /\ selected_client = 0
    /\ sep_dup = TRUE
    /\ sep_dist_m = 18
    /\ link_offset_m = 25
    /\ pc = "sidebar"
    /\ raised = ""
    /\ links_merge = NoFrame
    /\ sites_vis = NoFrame
    /\ links_paths = NoFrame
    /\ arrows_df = NoFrame
    /\ center = <<NaN, NaN>>
    /\ site_markers = <<>>
    /\ call = NoCall
    /\ db = EmptyDb
    /\ ui = NoSession

\* lines 162-198: the widgets are read
Sidebar ==
    /\ pc = "sidebar"
    /\ \E c \in SidebarChoices :
        /\ selected_client' = c.client
        /\ sep_dup' = c.dup
        /\ sep_dist_m' = c.dist
        /\ link_offset_m' = c.offset
    /\ pc' = "merge"
    /\ UNCHANGED <<sites_df, links_df, raised, links_merge, sites_vis, links_paths,
                   arrows_df, center>>
    /\ UNCHANGED <<site_markers, call, db, ui>>

\* lines 862-883: client filter, st.stop() without sites, the three merges.
\* A table without rows is loaded as a frame without columns, and merging on
\* the column site_from of such a frame raises KeyError
Merge ==
    /\ pc = "merge"
    /\ IF empty(sites_df)
       THEN pc' = "stopped" /\ UNCHANGED <<raised, links_merge>>
       ELSE IF "site_from" \notin FilterClient(links_df, selected_client).columns
       THEN pc' = "raised" /\ raised' = "KeyError" /\ UNCHANGED links_merge
       ELSE /\ links_merge' = LinksMerge(FilterClient(links_df, selected_client),
                                         SitesMin(sites_df))
            /\ pc' = "spread_sites"
            /\ UNCHANGED raised
    /\ UNCHANGED <<sites_df, links_df, selected_client, sep_dup, sep_dist_m,
                   link_offset_m, sites_vis, links_paths, arrows_df, center>>
    /\ UNCHANGED <<site_markers, call, db, ui>>

\* line 915
SpreadSites ==
    /\ pc = "spread_sites"
    /\ sites_vis' = _spread_overlaps(SitesPoints(SitesMin(sites_df)),
                                     IF sep_dup THEN sep_dist_m ELSE 0, sep_dup)
    /\ pc' = "spread_links"
    /\ UNCHANGED <<sites_df, links_df, selected_client, sep_dup, sep_dist_m,
                   link_offset_m, raised, links_merge, links_paths, arrows_df, center>>
    /\ UNCHANGED <<site_markers, call, db, ui>>

\* lines 917-1003
SpreadLinks ==
    /\ pc = "spread_links"
    /\ links_paths' = _spread_overlapping_links(DropNa(links_merge), link_offset_m)
    /\ pc' = "paths"
    /\ UNCHANGED <<sites_df, links_df, selected_client, sep_dup, sep_dist_m,
                   link_offset_m, raised, links_merge, sites_vis, arrows_df, center>>
    /\ UNCHANGED <<site_markers, call, db, ui>>

\* lines 1005-1041: the "path" column and the arrows.  On a frame without rows
\* DataFrame.apply(axis=1) returns a frame, not a column; assigning it to the
\* one column "path" raises ValueError or is accepted, depending on the
\* version of pandas
PathsAndArrows ==
    /\ pc = "paths"
    /\ \/ /\ links_paths.rows = <<>>
          /\ pc' = "raised"
          /\ raised' = "ValueError"
          /\ UNCHANGED <<links_paths, arrows_df>>
       \/ /\ links_paths.rows = <<>>
          /\ arrows_df' = DataFrame(<<>>)
          /\ pc' = "center"
          /\ UNCHANGED <<links_paths, raised>>
       \/ /\ links_paths.rows # <<>>
          /\ links_paths' =
                Frame(links_paths.columns \cup {"path"},
                      [i \in 1..Len(links_paths.rows) |->
                          links_paths.rows[i] @@ [path |-> PathOf(links_paths.rows[i])]])
          /\ arrows_df' = DataFrame([i \in 1..Len(links_paths.rows) |->
                                        ArrowOf(links_paths.rows[i])])
          /\ pc' = "center"
          /\ UNCHANGED raised
    /\ UNCHANGED <<sites_df, links_df, selected_client, sep_dup, sep_dist_m,
                   link_offset_m, links_merge, sites_vis, center>>
    /\ UNCHANGED <<site_markers, call, db, ui>>

\* lines 1044-1054: selecting the offset columns of a frame that does not have
\* them raises KeyError
MapCenter ==
    /\ pc = "center"
    /\ IF OffsetColumns \subseteq links_paths.columns
       THEN /\ center' = CenterOf(SitesPoints(SitesMin(sites_df)), links_paths)
            /\ pc' = "done"
            /\ UNCHANGED raised
       ELSE /\ pc' = "raised"
            /\ raised' = "KeyError"
            /\ UNCHANGED center
    /\ UNCHANGED <<sites_df, links_df, selected_client, sep_dup, sep_dist_m,
                   link_offset_m, links_merge, sites_vis, links_paths, arrows_df>>
    /\ UNCHANGED <<site_markers, call, db, ui>>

\* the marker of a row of sites_points (lines 1133-1152)
MarkerOf(row) == [location |-> <<row.lat, row.lon>>, tooltip |-> <<row.name, row.id>>]

MarkersOf(rows) == [i \in 1..Len(rows) |-> MarkerOf(rows[i])]

\* the rows before the first one with a missing latitude or longitude
BeforeMissing(rows) ==
    SubSeq(rows, 1, (CHOOSE i \in 1..Len(rows) :
                        /\ ~(notna(rows[i].lat) /\ notna(rows[i].lon))
                        /\ \A j \in 1..(i - 1) : notna(rows[j].lat) /\ notna(rows[j].lon)) - 1)

\* lines 1056-1153 (use_folium is True, line 201): one marker per row of
\* sites_points.  folium.Marker raises ValueError for a location with NaN,
\* or accepts it, depending on the version of folium
SiteMarkersOf(rows) ==
    \/ /\ site_markers' = MarkersOf(rows)
       /\ pc' = "drawn"
       /\ UNCHANGED raised
    \/ /\ \E i \in 1..Len(rows) : ~(notna(rows[i].lat) /\ notna(rows[i].lon))
       /\ site_markers' = MarkersOf(BeforeMissing(rows))
       /\ pc' = "raised_markers"
       /\ raised' = "ValueError"

SiteMarkers ==
    /\ pc = "done"
    /\ SiteMarkersOf(SitesPoints(SitesMin(sites_df)).rows)
    /\ UNCHANGED <<sites_df, links_df, selected_client, sep_dup, sep_dist_m,
                   link_offset_m, links_merge, sites_vis, links_paths, arrows_df, center,
                   call, db, ui>>

Next ==
    Sidebar \/ Merge \/ SpreadSites \/ SpreadLinks \/ PathsAndArrows \/ MapCenter
    \/ SiteMarkers

Spec == Init /\ [][Next]_vars

-----------------------------------------------------------------------------
(* The two functions called on their own, with any parameter values: they  *)
(* take any float, the ranges are the sliders'.                            *)

\* sep_dup (the global _spread_overlaps reads), dist_m and offset_m of a call
CallChoices ==
    { [dup |-> TRUE,  dist |-> 18,  offset |-> 25],
      [dup |-> FALSE, dist |-> 18,  offset |-> 25],
      [dup |-> TRUE,  dist |-> 0,   offset |-> 25],
      [dup |-> TRUE,  dist |-> -18, offset |-> 25],
      [dup |-> TRUE,  dist |-> 18,  offset |-> 0],
      [dup |-> TRUE,  dist |-> 18,  offset |-> -25] }

\* the arguments: the sites as points, the links joined with the coordinates
CallInit ==
    /\ CallArguments
    /\ selected_client = 0
    /\ \E c \in CallChoices :
        /\ sep_dup = c.dup
        /\ sep_dist_m = c.dist
        /\ link_offset_m = c.offset
    /\ pc = "call_sites"
    /\ raised = ""
    /\ links_merge = (IF empty(links_df) THEN DataFrame(<<>>)
                      ELSE LinksMerge(links_df, SitesMin(sites_df)))
    /\ sites_vis = NoFrame
    /\ links_paths = NoFrame
    /\ arrows_df = NoFrame
    /\ center = <<NaN, NaN>>
    /\ site_markers = <<>>
    /\ call = NoCall
    /\ db = EmptyDb
    /\ ui = NoSession

\* _spread_overlaps(df_sites, dist_m), lines 885-913
CallSpreadOverlaps ==
    /\ pc = "call_sites"
    /\ sites_vis' = _spread_overlaps(IF empty(sites_df) THEN DataFrame(<<>>)
                                     ELSE SitesPoints(SitesMin(sites_df)),
                                     sep_dist_m, sep_dup)
    /\ pc' = "call_links"
    /\ UNCHANGED <<sites_df, links_df, selected_client, sep_dup, sep_dist_m,
                   link_offset_m, raised, links_merge, links_paths, arrows_df, center>>
    /\ UNCHANGED <<site_markers, call, db, ui>>

\* _spread_overlapping_links(df, offset_m), lines 919-1000
CallSpreadLinks ==
    /\ pc = "call_links"
    /\ links_paths' = _spread_overlapping_links(DropNa(links_merge), link_offset_m)
    /\ pc' = "returned"
    /\ UNCHANGED <<sites_df, links_df, selected_client, sep_dup, sep_dist_m,
                   link_offset_m, raised, links_merge, sites_vis, arrows_df, center>>
    /\ UNCHANGED <<site_markers, call, db, ui>>

CallNext == CallSpreadOverlaps \/ CallSpreadLinks

CallSpec == CallInit /\ [][CallNext]_vars

-----------------------------------------------------------------------------
(* _bearing_deg and _interp_point called on their own.                     *)

\* points (lat, lon) in degrees
GeoPoints ==
    { <<I(0), I(0)>>, <<I(0), I(1)>>, <<I(1), I(0)>>, <<I(0), I(-1)>>, <<I(-1), I(0)>>,
      <<I(84), I(0)>>, <<I(88), I(20)>>, <<R(-5, 2), I(118)>> }

\* values of the parameter t of _interp_point
GeoTs == { I(0), I(1), R(1, 2), R(82, 100), I(2) }

\* the default of the parameter t of _interp_point (line 1023)
interp_t_default == R(85, 100)

GeoInit ==
    /\ sites_df = NoFrame
    /\ links_df = NoFrame
    /\ selected_client = 0
    /\ sep_dup = TRUE
    /\ sep_dist_m = 18
    /\ link_offset_m = 25
    /\ pc = "geo"
    /\ raised = ""
    /\ links_merge = NoFrame
    /\ sites_vis = NoFrame
    /\ links_paths = NoFrame
    /\ arrows_df = NoFrame
    /\ center = <<NaN, NaN>>
    /\ site_markers = <<>>
    /\ call = NoCall
    /\ db = EmptyDb
    /\ ui = NoSession

\* _bearing_deg(lat1, lon1, lat2, lon2), lines 1014-1021
CallBearing ==
    /\ pc = "geo"
    /\ \E p, q \in GeoPoints :
          call' = [fn |-> "_bearing_deg", from |-> p, to |-> q,
                   result |-> _bearing_deg(p[1], p[2], q[1], q[2])]
    /\ pc' = "geo_returned"
    /\ UNCHANGED <<sites_df, links_df, selected_client, sep_dup, sep_dist_m,
                   link_offset_m, raised, links_merge, sites_vis, links_paths,
                   arrows_df, center, site_markers, db, ui>>

\* _interp_point(lat1, lon1, lat2, lon2, t), lines 1023-1025
CallInterp ==
    /\ pc = "geo"
    /\ \E p, q \in GeoPoints, t \in GeoTs :
          call' = [fn |-> "_interp_point", nargs |-> 5, from |-> p, to |-> q, t |-> t,
                   result |-> _interp_point(p[1], p[2], q[1], q[2], t)]
    /\ pc' = "geo_returned"
    /\ UNCHANGED <<sites_df, links_df, selected_client, sep_dup, sep_dist_m,
                   link_offset_m, raised, links_merge, sites_vis, links_paths,
                   arrows_df, center, site_markers, db, ui>>

\* _interp_point(lat1, lon1, lat2, lon2): t is left out
CallInterpDefault ==
    /\ pc = "geo"
    /\ \E p, q \in GeoPoints :
          call' = [fn |-> "_interp_point", nargs |-> 4, from |-> p, to |-> q,
                   result |-> _interp_point(p[1], p[2], q[1], q[2], interp_t_default)]
    /\ pc' = "geo_returned"
    /\ UNCHANGED <<sites_df, links_df, selected_client, sep_dup, sep_dist_m,
                   link_offset_m, raised, links_merge, sites_vis, links_paths,
                   arrows_df, center, site_markers, db, ui>>

GeoNext == CallBearing \/ CallInterp \/ CallInterpDefault

GeoSpec == GeoInit /\ [][GeoNext]_vars

-----------------------------------------------------------------------------
(* The application over its database: renders of the page (load_data),    *)
(* the dialogs and the CSV import. One action is one click with all the    *)
(* statements it sends.                                                     *)

\* a name of 101 characters
LongName == [i \in 1..(client_name_limit + 1) |-> "x"]

\* what is typed into the dialogs
NameInputs == {<<"c", "1">>, <<" ">>, LongName}

NewNameInputs == {<<" ", "c", "2">>, <<" ">>}

SiteIdInputs == {<<"A">>, <<" ">>}

LatInputs == {0, 91}

LonInputs == {0, -181}

ApplInputs == {<<"7">>, <<" ">>}

\* a database filled from outside the application, with explicit ids: the
\* sequences were never used
Preloaded ==
    [clients |-> {[client_id |-> 1, client_name |-> <<"c", "1">>]},
     sites |-> {[site_id |-> <<"A">>, lat_dec |-> 0, long_dec |-> 0],
                [site_id |-> <<"B">>, lat_dec |-> 0, long_dec |-> 1]},
     links |-> {[link_id |-> 1, appl_id |-> <<"7">>, client_id |-> 1,
                 site_from |-> <<"A">>, site_to |-> <<"B">>]},
     clients_seq |-> 0, links_seq |-> 0]

\* the variables of the page script, which the dialogs leave alone
PageVars ==
    <<sites_df, links_df, selected_client, sep_dup, sep_dist_m, link_offset_m, pc,
      raised, links_merge, sites_vis, links_paths, arrows_df, center, site_markers,
      call>>

DbInit ==
    /\ db \in {EmptyDb, Preloaded}
    /\ ui = NoSession
    /\ sites_df = NoFrame
    /\ links_df = NoFrame
    /\ selected_client = 0
    /\ sep_dup = TRUE
    /\ sep_dist_m = 18
    /\ link_offset_m = 25
    /\ pc = "dialogs"
    /\ raised = ""
    /\ links_merge = NoFrame
    /\ sites_vis = NoFrame
    /\ links_paths = NoFrame
    /\ arrows_df = NoFrame
    /\ center = <<NaN, NaN>>
    /\ site_markers = <<>>
    /\ call = NoCall

\* the ids the sequences hand out stay within MaxRowId
ClientsRoom == db.clients_seq < MaxRowId /\ \A c \in db.clients : c.client_id < MaxRowId

LinksRoom == db.links_seq < MaxRowId /\ \A l \in db.links : l.link_id < MaxRowId

\* the start of a run of the script, load_data (lines 137-160): the tables
\* are read when nothing is cached, and the cached result is returned
\* otherwise; the messages of the run before are gone
load_data ==
    /\ ui.op # "load_data"
    /\ ui' = [NoSession EXCEPT
                 !.cache = IF ui.cache.loaded THEN ui.cache
                           ELSE [loaded |-> TRUE, clients |-> db.clients,
                                 sites |-> db.sites, links |-> db.links],
                 !.op = "load_data"]
    /\ UNCHANGED db
    /\ UNCHANGED PageVars

\* the page is rendered from the result of load_data: a click is handled in
\* the run it starts, after load_data
Rendered == ui.op = "load_data"

\* the button "Refresh Data" (lines 123-135): st.cache_data.clear()
RefreshData ==
    /\ Rendered
    /\ ui' = [NoSession EXCEPT !.op = "refresh"]
    /\ UNCHANGED db
    /\ UNCHANGED PageVars

\* the end of a click: after st.success, _refresh_and_rerun (lines 203-205)
\* clears the cache of load_data; after st.error the cache stays
Finish(op, out, file) ==
    /\ db' = out.db
    /\ ui' = [cache |-> IF out.ok THEN NoCache ELSE ui.cache,
              op |-> op,
              notice |-> IF out.ok THEN "success" ELSE "error",
              attempts |-> out.attempts, reseeded |-> out.reseeded,
              imported |-> file]
    /\ UNCHANGED PageVars

\* "Simpan" in the add-client dialog with the given text in the name field
AddClientWith(name) ==
    /\ Rendered
    /\ ClientsRoom
    /\ Finish("add_client", dlg_add_client(db, name), <<>>)

AddClient == \E name \in NameInputs : AddClientWith(name)

\* the client is picked from the clients of the rendered page
EditClient ==
    /\ Rendered
    /\ \E c \in ui.cache.clients, name \in NewNameInputs :
          Finish("edit_client", dlg_edit_client(db, c.client_id, name), <<>>)

DeleteClient ==
    /\ Rendered
    /\ \E c \in ui.cache.clients :
          Finish("delete_client", dlg_delete_clients(db, c.client_id), <<>>)

AddSite ==
    /\ Rendered
    /\ \E id \in SiteIdInputs, lat \in LatInputs, lon \in LonInputs :
          Finish("add_site", dlg_add_site(db, id, lat, lon), <<>>)

EditSite ==
    /\ Rendered
    /\ \E s \in ui.cache.sites, lat \in LatInputs, lon \in LonInputs :
          Finish("edit_site", dlg_edit_site(db, s.site_id, lat, lon), <<>>)

DeleteSite ==
    /\ Rendered
    /\ \E s \in ui.cache.sites :
          Finish("delete_site", dlg_delete_sites(db, s.site_id), <<>>)

\* the dialog opens only when there are clients and sites (line 614); the
\* link goes from the site A
AddLink ==
    /\ Rendered
    /\ LinksRoom
    /\ \E appl \in ApplInputs, c \in ui.cache.clients, f, t \in ui.cache.sites :
          /\ f.site_id = <<"A">>
          /\ Finish("add_link",
                    dlg_add_link(db, appl, c.client_id, f.site_id, t.site_id), <<>>)

\* the client and the sites of the link are left as they are
EditLink ==
    /\ Rendered
    /\ \E l \in ui.cache.links, appl \in ApplInputs :
          Finish("edit_link",
                 dlg_edit_link(db, l.link_id, appl, l.client_id, l.site_from, l.site_to),
                 <<>>)

DeleteLink ==
    /\ Rendered
    /\ \E l \in ui.cache.links :
          Finish("delete_link", dlg_delete_links(db, l.link_id), <<>>)

\* the button "Import Semua Data" for an uploaded file
ImportCsv ==
    /\ Rendered
    /\ ClientsRoom
    /\ LinksRoom
    /\ \E file \in CsvFiles : Finish("csv_import", csv_import(db, CsvRows(file)), file)

DbNext ==
    \/ load_data
    \/ RefreshData
    \/ AddClient
    \/ EditClient
    \/ DeleteClient
    \/ AddSite
    \/ EditSite
    \/ DeleteSite
    \/ AddLink
    \/ EditLink
    \/ DeleteLink
    \/ ImportCsv

DbSpec == DbInit /\ [][DbNext]_vars

-----------------------------------------------------------------------------

(* Properties of the two functions and of the run.                         *)

\* _spread_overlaps has returned: sites_vis is not written again afterwards
SitesSpread ==
    \/ pc \in {"spread_links", "call_links", "returned"}
    \/ pc = "raised" /\ links_merge # NoFrame

\* _spread_overlapping_links has returned: the offset columns of links_paths
\* are not written again afterwards
LinksSpread ==
    \/ pc \in {"paths", "returned"}
    \/ pc = "raised" /\ links_merge # NoFrame

\* the rows _spread_overlaps is called with
SitesIn == IF empty(sites_df) THEN <<>> ELSE SitesPoints(SitesMin(sites_df)).rows

\* the rows _spread_overlapping_links is called with
LinksIn == DropNa(links_merge).rows

\* the other sites of rows at exactly the coordinates of r
SitesAt(r, rows) ==
    {j \in 1..Len(rows) : rows[j].id # r.id /\ rows[j].lat = r.lat /\ rows[j].lon = r.lon}

\* the other links of rows with the key of r
LinksLike(r, rows) ==
    {j \in 1..Len(rows) : rows[j].link_id # r.link_id /\ LinkKey(rows[j]) = LinkKey(r)}

\* the row of site id in rows
SiteRow(rows, id) == rows[CHOOSE j \in 1..Len(rows) : rows[j].id = id]

\* the row of link link_id in rows
LinkRowOf(rows, link_id) == rows[CHOOSE j \in 1..Len(rows) : rows[j].link_id = link_id]

\* the offset endpoints of r are the endpoints of q
OffsetsAre(r, q) ==
    /\ r.offset_from_lat = q.from_lat /\ r.offset_from_lon = q.from_lon
    /\ r.offset_to_lat = q.to_lat /\ r.offset_to_lon = q.to_lon

\* C1: a site that shares its (lat, lon) with no other site is rendered at
\* exactly its original position, and a link that shares its 8-decimal key
\* with no other link gets offset_from = from and offset_to = to, whatever
\* dist_m and offset_m are (positive, zero or negative)
C1_SingletonIdentity ==
    /\ SitesSpread =>
         \A i \in 1..Len(SitesIn) :
            SitesAt(SitesIn[i], SitesIn) = {} =>
               /\ \E j \in 1..Len(sites_vis.rows) : sites_vis.rows[j].id = SitesIn[i].id
               /\ SiteRow(sites_vis.rows, SitesIn[i].id).lat = SitesIn[i].lat
               /\ SiteRow(sites_vis.rows, SitesIn[i].id).lon = SitesIn[i].lon
    /\ LinksSpread =>
         \A i \in 1..Len(LinksIn) :
            LinksLike(LinksIn[i], LinksIn) = {} =>
               /\ \E j \in 1..Len(links_paths.rows) :
                     links_paths.rows[j].link_id = LinksIn[i].link_id
               /\ OffsetsAre(LinkRowOf(links_paths.rows, LinksIn[i].link_id), LinksIn[i])

\* both functions have returned for a negative offset_m; there are a site and
\* a link on their own next to a group of sites and a group of links
C1_Witness ==
    /\ pc = "returned"
    /\ link_offset_m < 0
    /\ \E i, j \in 1..Len(SitesIn) :
          SitesAt(SitesIn[i], SitesIn) = {} /\ SitesAt(SitesIn[j], SitesIn) # {}
    /\ \E i, j \in 1..Len(LinksIn) :
          LinksLike(LinksIn[i], LinksIn) = {} /\ LinksLike(LinksIn[j], LinksIn) # {}

\* the additive offset of the from-endpoint of r is that of its to-endpoint
SameShift(r) ==
    /\ NSub(r.offset_from_lat, r.from_lat) = NSub(r.offset_to_lat, r.to_lat)
    /\ NSub(r.offset_from_lon, r.from_lon) = NSub(r.offset_to_lon, r.to_lon)

\* C2: every emitted link has offset_from - from = offset_to - to in both
\* components, for every group size, also when the members of a group differ
\* in their raw coordinates below the 8 decimals of the key
C2_SameOffsetBothEnds ==
    LinksSpread => \A j \in 1..Len(links_paths.rows) : SameShift(links_paths.rows[j])

\* the offset endpoints of r, as the path has them
OffsetPath(r) ==
    << <<r.offset_from_lon, r.offset_from_lat>>, <<r.offset_to_lon, r.offset_to_lat>> >>

\* C3: with offset_m > 0 any two distinct links of one group get different
\* offset paths, also in a group whose segment has length zero or is shorter
\* than 1 metre
C3_DistinctPaths ==
    (LinksSpread /\ link_offset_m > 0) =>
        \A i, j \in 1..Len(links_paths.rows) :
            (i # j /\ LinkKey(links_paths.rows[i]) = LinkKey(links_paths.rows[j])) =>
                OffsetPath(links_paths.rows[i]) # OffsetPath(links_paths.rows[j])

\* every site that shares its coordinates with another one is rendered at
\* its original position
GroupedSitesStay ==
    \A i \in 1..Len(SitesIn) :
        SitesAt(SitesIn[i], SitesIn) # {} =>
            /\ SiteRow(sites_vis.rows, SitesIn[i].id).lat = SitesIn[i].lat
            /\ SiteRow(sites_vis.rows, SitesIn[i].id).lon = SitesIn[i].lon

FirstLike(r, rows) ==
    rows[CHOOSE j \in 1..Len(rows) :
            /\ LinkKey(rows[j]) = LinkKey(r)
            /\ \A k \in 1..(j - 1) : LinkKey(rows[k]) # LinkKey(r)]

\* C5 as stated: with offset_m zero or negative every emitted link has
\* offset_from = from and offset_to = to, for every group size
C5_NonPositiveOffset ==
    (LinksSpread /\ link_offset_m <= 0) =>
        \A j \in 1..Len(links_paths.rows) :
            OffsetsAre(links_paths.rows[j], links_paths.rows[j])

\* C5, amended: with offset_m = 0 the offset endpoints of every emitted link
\* are the endpoints of the first link of its group (its own endpoints in a
\* group of one), for every group size
C5_ZeroOffset ==
    (LinksSpread /\ link_offset_m = 0) =>
        \A j \in 1..Len(links_paths.rows) :
            OffsetsAre(links_paths.rows[j], FirstLike(links_paths.rows[j], LinksIn))

\* _spread_overlapping_links has returned for offset_m = 0, and there is a
\* group of n > 1 links between two different coordinates
C5_Witness ==
    /\ pc = "returned"
    /\ link_offset_m = 0
    /\ \E j \in 1..Len(links_paths.rows) :
          /\ LinksLike(links_paths.rows[j], links_paths.rows) # {}
          /\ links_paths.rows[j].from_lon # links_paths.rows[j].to_lon

\* the links the client filter leaves, joined with the site coordinates
SelectedLinks ==
    IF empty(links_df) THEN <<>>
    ELSE LinksMerge(FilterClient(links_df, selected_client), SitesMin(sites_df)).rows

\* both sites of the joined link r have a latitude and a longitude
Resolved(r) ==
    notna(r.from_lat) /\ notna(r.from_lon) /\ notna(r.to_lat) /\ notna(r.to_lon)

\* the rows of links_paths for link link_id
PathsOf(link_id) ==
    {j \in 1..Len(links_paths.rows) : links_paths.rows[j].link_id = link_id}

\* C6: links with a missing coordinate are dropped silently and nothing else
\* is lost: the output has exactly one path for each selected link whose two
\* sites have coordinates, none for a link with a missing coordinate, and a
\* run with such a link raises no error (up to the drawing of the map, where
\* a site without coordinates is another matter)
C6_DroppedSilently ==
    /\ LinksSpread =>
          \A i \in 1..Len(SelectedLinks) :
              Cardinality(PathsOf(SelectedLinks[i].link_id))
                  = (IF Resolved(SelectedLinks[i]) THEN 1 ELSE 0)
    /\ (\E i \in 1..Len(SelectedLinks) : ~Resolved(SelectedLinks[i]))
          => (raised = "" \/ pc = "raised_markers")

\* no link reaches _spread_overlapping_links: none is stored, or the client
\* filter leaves none, or every one left has a missing coordinate
NoLinkReaches == \A i \in 1..Len(SelectedLinks) : ~Resolved(SelectedLinks[i])

\* C7: when no link reaches _spread_overlapping_links the run raises no
\* error, and it ends with no path and no arrow
C7_EmptyInputCompletes ==
    NoLinkReaches =>
        /\ raised = ""
        /\ pc = "done" => (links_paths.rows = <<>> /\ arrows_df.rows = <<>>)

\* q runs between the coordinates of r in the other direction
Reversed(r, q) ==
    /\ r.from_lat = q.to_lat /\ r.from_lon = q.to_lon
    /\ r.to_lat = q.from_lat /\ r.to_lon = q.from_lon

\* the two links of a frame of exactly two are each in a group of one
TwoGroupsOfOne(rows) ==
    Len(rows) = 2 => (OffsetsAre(rows[1], rows[1]) /\ OffsetsAre(rows[2], rows[2]))

\* C8 as stated: a link A->B and a link B->A between two distinct
\* coordinates are never in one group; one of each gives two groups of one
C8_DistinctCoordinates ==
    LinksSpread =>
        \A i, j \in 1..Len(links_paths.rows) :
            (/\ Reversed(links_paths.rows[i], links_paths.rows[j])
             /\ <<links_paths.rows[i].from_lat, links_paths.rows[i].from_lon>>
                    # <<links_paths.rows[i].to_lat, links_paths.rows[i].to_lon>>)
            => /\ LinkKey(links_paths.rows[i]) # LinkKey(links_paths.rows[j])
               /\ TwoGroupsOfOne(links_paths.rows)

\* the two ends of r differ in the 8 decimals of the key
EndsDifferInKey(r) ==
    <<Fmt(r.from_lat), Fmt(r.from_lon)>> # <<Fmt(r.to_lat), Fmt(r.to_lon)>>

\* C8, amended: a link A->B and a link B->A between two coordinates that
\* differ in their first 8 decimals are never in one group; one of each gives
\* two groups of one
C8_DistinctInKey ==
    LinksSpread =>
        \A i, j \in 1..Len(links_paths.rows) :
            (/\ Reversed(links_paths.rows[i], links_paths.rows[j])
             /\ EndsDifferInKey(links_paths.rows[i]))
            => /\ LinkKey(links_paths.rows[i]) # LinkKey(links_paths.rows[j])
               /\ TwoGroupsOfOne(links_paths.rows)

\* the links are spread, with exactly one link each way between (0, 0) and
\* (0, 1)
C8_Witness ==
    /\ pc = "paths"
    /\ link_offset_m > 0
    /\ Len(links_paths.rows) = 2
    /\ Reversed(links_paths.rows[1], links_paths.rows[2])
    /\ EndsDifferInKey(links_paths.rows[1])

\* the centred index of the i-th member (from 0) of a group of n, as stated
CentredIndex(i, n) == NSub(I(i), NDiv(I(n - 1), I(2)))

\* the groups of links_paths: for each key the positions of its rows, in order
GroupsOut ==
    LET keys == LinkKeys(links_paths.rows)
    IN  {Members(keys, k) : k \in Range(keys)}

\* the row r is offset from the row first by dist times (p_lat, p_lon), at
\* both ends
OffsetBy(r, first, dist, p_lat, p_lon) ==
    /\ NSub(r.offset_from_lat, first.from_lat) = NMul(dist, p_lat)
    /\ NSub(r.offset_from_lon, first.from_lon) = NMul(dist, p_lon)
    /\ NSub(r.offset_to_lat, first.to_lat) = NMul(dist, p_lat)
    /\ NSub(r.offset_to_lon, first.to_lon) = NMul(dist, p_lon)

\* the rows at idx are offset from the first of them by the centred indices
\* times offset_m times (p_lat, p_lon); the indices differ and sum to 0, and
\* so do the offsets
SpreadAbout(rows, idx, offset_m, p_lat, p_lon) ==
    /\ \A j \in 1..Len(idx) :
          OffsetBy(rows[idx[j]], rows[idx[1]],
                   NMul(CentredIndex(j - 1, Len(idx)), I(offset_m)), p_lat, p_lon)
    /\ \A j, k \in 1..Len(idx) :
          j # k => CentredIndex(j - 1, Len(idx)) # CentredIndex(k - 1, Len(idx))
    /\ SumNum([j \in 1..Len(idx) |-> CentredIndex(j - 1, Len(idx))]) = I(0)
    /\ SumNum([j \in 1..Len(idx) |->
                  NSub(rows[idx[j]].offset_from_lat, rows[idx[1]].from_lat)]) = I(0)
    /\ SumNum([j \in 1..Len(idx) |->
                  NSub(rows[idx[j]].offset_from_lon, rows[idx[1]].from_lon)]) = I(0)

\* C9: in a group of n > 1 links the i-th member (i = 0..n-1) is offset by the
\* distance (i - (n-1)/2) * offset_m along the group's perpendicular, each
\* index is used once, and the indices (and so the offsets) of the group sum
\* to 0
C9_SymmetricSpread ==
    LinksSpread =>
        \A idx \in GroupsOut :
            Len(idx) > 1 =>
                SpreadAbout(links_paths.rows, idx, link_offset_m,
                            perp_lat_deg(links_paths.rows[idx[1]]),
                            perp_lon_deg(links_paths.rows[idx[1]]))

\* the links are spread, with a group of at least three links that are moved
\* apart
C9_Witness ==
    /\ pc = "paths"
    /\ \E idx \in GroupsOut :
          /\ Len(idx) >= 3
          /\ links_paths.rows[idx[1]].offset_from_lat # links_paths.rows[idx[2]].offset_from_lat

\* the segment of the group's first row, in metres north and east
SegNorth(first) == NMul(dlat(first), I(lat_to_m))

SegEast(first) == NMul(dlon(first), lon_to_m(lat_mid(first)))

\* the vector (north, east) has length len and is perpendicular to the
\* vector (seg_north, seg_east)
PerpendicularOfLength(north, east, len, seg_north, seg_east) ==
    /\ NAdd(NMul(north, north), NMul(east, east)) = NMul(len, len)
    /\ NAdd(NMul(north, seg_north), NMul(east, seg_east)) = I(0)

\* the displacement of row r from the segment of first, in metres (lon_m
\* metres per degree of longitude), at both ends, has length len and is
\* perpendicular to (seg_north, seg_east)
DisplacedBy(r, first, len, lon_m, seg_north, seg_east) ==
    /\ PerpendicularOfLength(
           NMul(NSub(r.offset_from_lat, first.from_lat), I(lat_to_m)),
           NMul(NSub(r.offset_from_lon, first.from_lon), lon_m),
           len, seg_north, seg_east)
    /\ PerpendicularOfLength(
           NMul(NSub(r.offset_to_lat, first.to_lat), I(lat_to_m)),
           NMul(NSub(r.offset_to_lon, first.to_lon), lon_m),
           len, seg_north, seg_east)

\* if the segment (seg_north, seg_east) of the first of the rows at idx is at
\* least 1 metre long, each of the rows is displaced from it by its centred
\* index times offset_m metres, perpendicular to it
DisplacedAbout(rows, idx, offset_m, lon_m, seg_north, seg_east) ==
    ~NLt(SqrtSumSq(seg_north, seg_east), I(1)) =>
        \A j \in 1..Len(idx) :
            DisplacedBy(rows[idx[j]], rows[idx[1]],
                        NMul(CentredIndex(j - 1, Len(idx)), I(offset_m)),
                        lon_m, seg_north, seg_east)

\* C10: in a group of n > 1 links whose segment is at least 1 metre long the
\* member with centred index k is displaced from the group's segment by
\* exactly |k| * offset_m metres, perpendicular to the segment, in the frame
\* with 111320 metres per degree of latitude and 111320 * max(0.15, cos(mid
\* latitude)) metres per degree of longitude
C10_PerpendicularMetres ==
    LinksSpread =>
        \A idx \in GroupsOut :
            Len(idx) > 1 =>
                DisplacedAbout(links_paths.rows, idx, link_offset_m,
                               lon_to_m(lat_mid(links_paths.rows[idx[1]])),
                               SegNorth(links_paths.rows[idx[1]]),
                               SegEast(links_paths.rows[idx[1]]))

\* the links are spread, two links (0, 0) -> (0, 1) with offset_m = 25: one is
\* 12.5 m north of the segment, the other 12.5 m south of it
C10_Witness ==
    /\ pc = "paths"
    /\ link_offset_m = 25
    /\ Len(links_paths.rows) = 2
    /\ \A j \in 1..2 :
          /\ links_paths.rows[j].from_lat = I(0) /\ links_paths.rows[j].from_lon = I(0)
          /\ links_paths.rows[j].to_lat = I(0) /\ links_paths.rows[j].to_lon = I(1)
          /\ links_paths.rows[j].offset_from_lon = I(0)
          /\ links_paths.rows[j].offset_to_lon = I(1)
          /\ links_paths.rows[j].offset_to_lat = links_paths.rows[j].offset_from_lat
    /\ {NMul(links_paths.rows[j].offset_from_lat, I(lat_to_m)) : j \in 1..2}
           = {R(25, 2), R(-25, 2)}

\* C11: with separation disabled every site is emitted at its original
\* position, whatever the size of its group, and with the real size of its
\* group: the number of sites at its coordinates
C11_DisabledKeepsPositions ==
    (SitesSpread /\ ~sep_dup) =>
        \A i \in 1..Len(SitesIn) :
            /\ \E j \in 1..Len(sites_vis.rows) : sites_vis.rows[j].id = SitesIn[i].id
            /\ SiteRow(sites_vis.rows, SitesIn[i].id).lat = SitesIn[i].lat
            /\ SiteRow(sites_vis.rows, SitesIn[i].id).lon = SitesIn[i].lon
            /\ SiteRow(sites_vis.rows, SitesIn[i].id).group_size
                   = 1 + Cardinality(SitesAt(SitesIn[i], SitesIn))

\* the run has spread the sites with separation disabled, and two of them
\* are at the same coordinates
C11_Witness ==
    /\ pc = "spread_links"
    /\ ~sep_dup
    /\ \E i \in 1..Len(SitesIn) : SitesAt(SitesIn[i], SitesIn) # {}
    /\ \E j \in 1..Len(sites_vis.rows) : sites_vis.rows[j].group_size = 2

\* the place of the site r among the sites of rows at its coordinates, from 0
\* in the order of rows
IndexInGroup(r, rows) ==
    Cardinality({j \in SitesAt(r, rows) :
                    j < (CHOOSE k \in 1..Len(rows) : rows[k].id = r.id)})

\* separationMeters / (111320 * max(0.15, cos(lat)))
LonDelta(dist_m, lat) ==
    NDiv(I(dist_m), NMul(I(lat_to_m), NMax(R(15, 100), CosOfLat(lat))))

\* out is r moved by (d_lat * sin(ang), d_lon * cos(ang)), ang in degrees
OnCircle(r, out, d_lat, d_lon, ang) ==
    /\ out.lat = NAdd(r.lat, NMul(d_lat, Num(SinDeg(ang), QZero)))
    /\ out.lon = NAdd(r.lon, NMul(d_lon, Num(CosDeg(ang), QZero)))

\* the emitted rows of r and of the other sites at its coordinates
GroupOut(r, rows, out) ==
    SelectRows(out, [j \in 1..Len(out) |->
                        out[j].orig_lat = r.lat /\ out[j].orig_lon = r.lon])

\* member i of the n sites at the coordinates of r is emitted as q, the n
\* emitted rows being group
CircularMember(r, q, i, n, dist_m, group) ==
    /\ OnCircle(r, q, NDiv(I(dist_m), I(lat_to_m)), LonDelta(dist_m, r.lat),
                QNorm(360 * i, n))
    /\ i = 0 =>
          /\ q.lat = r.lat
          /\ dist_m > 0 => NLt(r.lon, q.lon)
    /\ Mean(Column(DataFrame(group), "lat")) = r.lat
    /\ Mean(Column(DataFrame(group), "lon")) = r.lon

CircularGroups(rows, out, dist_m) ==
    \A i \in 1..Len(rows) :
        (SitesAt(rows[i], rows) # {} /\ notna(rows[i].lat) /\ notna(rows[i].lon)) =>
            CircularMember(rows[i], SiteRow(out, rows[i].id), IndexInGroup(rows[i], rows),
                           1 + Cardinality(SitesAt(rows[i], rows)), dist_m,
                           GroupOut(rows[i], rows, out))

\* C12: with separation enabled, member i (from 0, in input order) of a
\* group of n > 1 sites with coordinates is placed at
\* (lat + dLat sin(360 i / n), lon + dLon cos(360 i / n)) with
\* dLat = dist_m / 111320 and dLon = dist_m / (111320 max(0.15, cos lat));
\* member 0 keeps its latitude and moves in longitude only, to the east for
\* a positive dist_m; the mean of the positions of the group is the shared
\* coordinate
C12_CircularSymmetry ==
    (SitesSpread /\ sep_dup) => CircularGroups(SitesIn, sites_vis.rows, sep_dist_m)

\* three sites at (0, 0) spread 18 m: the first moved east only, and the two
\* sites at latitude 84 spread with the cosine floored at 0.15
C12_Witness ==
    /\ pc = "returned"
    /\ sep_dup
    /\ sep_dist_m = 18
    /\ \E i \in 1..Len(SitesIn) :
          /\ Cardinality(SitesAt(SitesIn[i], SitesIn)) = 2
          /\ IndexInGroup(SitesIn[i], SitesIn) = 0
          /\ SiteRow(sites_vis.rows, SitesIn[i].id).lat = I(0)
          /\ SiteRow(sites_vis.rows, SitesIn[i].id).lon = R(18, lat_to_m)
    /\ \E i \in 1..Len(SitesIn) :
          /\ SitesIn[i].lat = I(84)
          /\ IndexInGroup(SitesIn[i], SitesIn) = 1
          /\ SiteRow(sites_vis.rows, SitesIn[i].id).lon = R(-18 * 100, lat_to_m * 15)

\* the rows of out for the site id
RowsOf(out, id) == {j \in 1..Len(out) : out[j].id = id}

\* q is the only row of out for the site r, with its name and coordinates
RenderPointOf(r, q, out) ==
    /\ Cardinality(RowsOf(out, r.id)) = 1
    /\ q.name = r.name
    /\ q.orig_lat = r.lat
    /\ q.orig_lon = r.lon

OneRowPerSite(rows, out) ==
    /\ Len(out) = Len(rows)
    /\ \A i \in 1..Len(rows) : RenderPointOf(rows[i], SiteRow(out, rows[i].id), out)

\* C13: _spread_overlaps emits exactly one row per input site, the sites
\* without latitude or longitude included, with the id and the name of the
\* site, and with orig_lat / orig_lon equal to the coordinates of the input,
\* for every group size, every sep_dup and every dist_m
C13_OneRenderPointPerSite == SitesSpread => OneRowPerSite(SitesIn, sites_vis.rows)

\* the function has returned a site without coordinates, a site that is alone
\* at its coordinates and a site moved away from its original position
C13_Witness ==
    /\ pc = "returned"
    /\ sep_dup
    /\ \E j \in 1..Len(sites_vis.rows) : ~notna(sites_vis.rows[j].orig_lat)
    /\ \E j \in 1..Len(sites_vis.rows) : sites_vis.rows[j].group_size = 1
    /\ \E j \in 1..Len(sites_vis.rows) :
          /\ sites_vis.rows[j].group_size = 3
          /\ notna(sites_vis.rows[j].lat)
          /\ sites_vis.rows[j].lat # sites_vis.rows[j].orig_lat

\* every site of rows is in out, with the number of sites of rows at its
\* (lat, lon) as group_size
GroupSizesCount(rows, out) ==
    \A i \in 1..Len(rows) :
        /\ RowsOf(out, rows[i].id) # {}
        /\ SiteRow(out, rows[i].id).group_size
               = Cardinality({j \in 1..Len(rows) : /\ rows[j].lat = rows[i].lat
                                                    /\ rows[j].lon = rows[i].lon})

\* C14: the group_size of every emitted row is the number of input sites whose
\* (lat, lon) pair equals its own, missing values counting as equal to missing
\* values only: 1 when no other site shares the pair; a site without latitude
\* or longitude is emitted, with the number of sites missing the same values
C14_GroupSizeCountsEqualPairs == SitesSpread => GroupSizesCount(SitesIn, sites_vis.rows)

\* separation is on; two sites without latitude and longitude form a group of
\* two, a site without latitude only is a group of its own, and another site
\* shares its latitude, but not its longitude, with a group of three
C14_Witness ==
    /\ pc = "returned"
    /\ sep_dup
    /\ \E j \in 1..Len(sites_vis.rows) :
          /\ ~notna(sites_vis.rows[j].orig_lat) /\ ~notna(sites_vis.rows[j].orig_lon)
          /\ sites_vis.rows[j].group_size = 2
    /\ \E j \in 1..Len(sites_vis.rows) :
          /\ ~notna(sites_vis.rows[j].orig_lat) /\ notna(sites_vis.rows[j].orig_lon)
          /\ sites_vis.rows[j].group_size = 1
    /\ \E j, k \in 1..Len(sites_vis.rows) :
          /\ sites_vis.rows[j].orig_lat = sites_vis.rows[k].orig_lat
          /\ notna(sites_vis.rows[j].orig_lat)
          /\ sites_vis.rows[j].group_size = 1
          /\ sites_vis.rows[k].group_size = 3

\* the columns of the links: the identifiers and the attributes passed through
PassedThrough ==
    {"link_id", "appl_id", "client_id", "freq", "freq_pair", "bandwidth", "model"}

\* the from / to coordinates of a joined link
EndColumns == {"from_lat", "from_lon", "to_lat", "to_lon"}

\* C15: _spread_overlapping_links only adds the four offset columns: every
\* link of the input is emitted once, with every column of the input (the
\* from / to coordinates, the link id and the attributes among them) at the
\* value of the input, in groups of one and of several links alike, and the
\* frame it was called with is the same after the call
C15_OnlyAddsFields ==
    (pc = "returned" /\ ~empty(DropNa(links_merge))) =>
        /\ links_paths.columns = DropNa(links_merge).columns \cup OffsetColumns
        /\ OffsetColumns \cap DropNa(links_merge).columns = {}
        /\ (PassedThrough \cup EndColumns) \subseteq DropNa(links_merge).columns
        /\ Len(links_paths.rows) = Len(LinksIn)
        /\ \A i \in 1..Len(LinksIn) :
              /\ Cardinality({j \in 1..Len(links_paths.rows) :
                                 links_paths.rows[j].link_id = LinksIn[i].link_id}) = 1
              /\ \A c \in DropNa(links_merge).columns :
                    LinkRowOf(links_paths.rows, LinksIn[i].link_id)[c] = LinksIn[i][c]
        /\ links_merge = LinksMerge(links_df, SitesMin(sites_df))

\* the function has returned a link that is alone in its group and a link of
\* a group of several links whose offset endpoints are not its endpoints
C15_Witness ==
    /\ pc = "returned"
    /\ link_offset_m = 25
    /\ \E i \in 1..Len(LinksIn) : LinksLike(LinksIn[i], LinksIn) = {}
    /\ \E i \in 1..Len(LinksIn) :
          /\ LinksLike(LinksIn[i], LinksIn) # {}
          /\ LinkRowOf(links_paths.rows, LinksIn[i].link_id).offset_from_lat
                 # LinksIn[i].from_lat

\* the paths and the arrows have just been computed (lines 1003-1041)
ArrowsMade == pc = "center"

\* the stored row of site id
StoredSite(id) == sites_df.rows[CHOOSE i \in 1..Len(sites_df.rows) :
                                    sites_df.rows[i].site_id = id]

\* the paths of the stored sites and links for one client and one line offset
RenderPathsFor(sites, links, client, offset_m) ==
    _spread_overlapping_links(
        DropNa(LinksMerge(FilterClient(links, client), SitesMin(sites))), offset_m)

\* the from / to coordinates of the path r are those of the stored sites f, t
JoinsStored(r, f, t) ==
    /\ r.from_lat = f.lat_dec /\ r.from_lon = f.long_dec
    /\ r.to_lat = t.lat_dec /\ r.to_lon = t.long_dec

\* the paths rows are the paths want, each between the stored coordinates
PathsAre(rows, want) ==
    /\ Len(rows) = Len(want.rows)
    /\ \A j \in 1..Len(rows) :
          /\ \A c \in want.columns : rows[j][c] = want.rows[j][c]
          /\ JoinsStored(rows[j], StoredSite(rows[j].site_from), StoredSite(rows[j].site_to))

\* C16: the paths do not depend on the spreading of the sites: the from / to
\* coordinates of every path are the stored coordinates of its two sites, and
\* the paths (original and offset endpoints) are those that the stored sites
\* and links, the client and the line offset determine, whatever sep_dup and
\* sep_dist_m are
C16_PathsIgnoreSeparation ==
    ArrowsMade =>
        PathsAre(links_paths.rows,
                 RenderPathsFor(sites_df, links_df, selected_client, link_offset_m))

\* separation is on and has moved the site a path starts from, and the path
\* starts from the stored coordinates of the site
C16_Witness ==
    /\ ArrowsMade
    /\ sep_dup
    /\ \E j \in 1..Len(links_paths.rows) :
          /\ SiteRow(sites_vis.rows, links_paths.rows[j].site_from).lon
                 # links_paths.rows[j].from_lon
          /\ links_paths.rows[j].from_lon
                 = StoredSite(links_paths.rows[j].site_from).long_dec

\* a is at 0.82 of the way from (lat1, lon1) to (lat2, lon2) and is headed
\* along the bearing from the first to the second
ArrowAlong(a, lat1, lon1, lat2, lon2) ==
    /\ a.lat = NAdd(lat1, NMul(R(82, 100), NSub(lat2, lat1)))
    /\ a.lon = NAdd(lon1, NMul(R(82, 100), NSub(lon2, lon1)))
    /\ a.angle = _bearing_deg(lat1, lon1, lat2, lon2)

\* C17: there is exactly one arrow for every path, in the order of the paths
\* and with the appl_id of its path; its position is
\* offset_from + 0.82 (offset_to - offset_from) and its angle is the bearing
\* from the offset from-point to the offset to-point
C17_ArrowFromOffsetEndpoints ==
    ArrowsMade =>
        /\ Len(arrows_df.rows) = Len(links_paths.rows)
        /\ \A j \in 1..Len(links_paths.rows) :
              /\ arrows_df.rows[j].appl_id = links_paths.rows[j].appl_id
              /\ ArrowAlong(arrows_df.rows[j],
                            links_paths.rows[j].offset_from_lat,
                            links_paths.rows[j].offset_from_lon,
                            links_paths.rows[j].offset_to_lat,
                            links_paths.rows[j].offset_to_lon)

\* two paths of one group, moved off their original segment, each with an
\* arrow that is not on the original segment
C17_Witness ==
    /\ ArrowsMade
    /\ Len(arrows_df.rows) > 1
    /\ \E j \in 1..Len(links_paths.rows) :
          /\ links_paths.rows[j].offset_from_lat # links_paths.rows[j].from_lat
          /\ ~ArrowAlong(arrows_df.rows[j],
                         links_paths.rows[j].from_lat, links_paths.rows[j].from_lon,
                         links_paths.rows[j].to_lat, links_paths.rows[j].to_lon)
          /\ arrows_df.rows[j].angle = I(90)

\* _bearing_deg has returned
BearingReturned == pc = "geo_returned" /\ call.fn = "_bearing_deg"

\* C18: _bearing_deg returns a number in [0, 360) for every pair of points,
\* two identical points included; from (0, 0) it is 90 to (0, 1), 0 to (1, 0)
\* and 270 to (0, -1)
C18_BearingNormalised ==
    BearingReturned =>
        /\ notna(call.result)
        /\ ~NLt(call.result, I(0))
        /\ NLt(call.result, I(360))
        /\ (call.from = <<I(0), I(0)>> /\ call.to = <<I(0), I(1)>>) => call.result = I(90)
        /\ (call.from = <<I(0), I(0)>> /\ call.to = <<I(1), I(0)>>) => call.result = I(0)
        /\ (call.from = <<I(0), I(0)>> /\ call.to = <<I(0), I(-1)>>) => call.result = I(270)

\* the bearing to the west, which atan2 gives as -90
C18_Witness ==
    /\ BearingReturned
    /\ call.from = <<I(0), I(0)>>
    /\ call.to = <<I(0), I(-1)>>
    /\ call.result = I(270)

\* _interp_point has returned
InterpReturned == pc = "geo_returned" /\ call.fn = "_interp_point"

\* p + (q - p) t in both coordinates
Linear(p, q, t) ==
    <<NAdd(p[1], NMul(NSub(q[1], p[1]), t)), NAdd(p[2], NMul(NSub(q[2], p[2]), t))>>

\* C19: _interp_point returns (lat1 + (lat2 - lat1) t, lon1 + (lon2 - lon1) t):
\* the first point for t = 0, the second for t = 1, the point itself for
\* identical points and any t; t is 0.85 when the call leaves it out
C19_LinearInterpolation ==
    InterpReturned =>
        /\ call.nargs = 5 =>
              /\ call.result = Linear(call.from, call.to, call.t)
              /\ call.t = I(0) => call.result = call.from
              /\ call.t = I(1) => call.result = call.to
        /\ call.nargs = 4 => call.result = Linear(call.from, call.to, R(85, 100))
        /\ call.from = call.to => call.result = call.from

\* a call without t between two different points: 0.85 of the way, which is
\* 85/100 degree of longitude from (0, 0) to (0, 1)
C19_Witness ==
    /\ InterpReturned
    /\ call.nargs = 4
    /\ call.from = <<I(0), I(0)>>
    /\ call.to = <<I(0), I(1)>>
    /\ call.result = <<I(0), R(17, 20)>>

\* C20: every site marker of the map is at the position _spread_overlaps
\* gave its site in sites_vis, so that with separation on the markers of the
\* sites at the same coordinates are at different positions
C20_MarkersAtRenderPositions ==
    pc = "drawn" =>
        /\ \A k \in 1..Len(site_markers) :
              site_markers[k].location
                  = <<SiteRow(sites_vis.rows, site_markers[k].tooltip[2]).lat,
                      SiteRow(sites_vis.rows, site_markers[k].tooltip[2]).lon>>
        /\ sep_dup =>
              \A k, l \in 1..Len(site_markers) :
                  k # l => site_markers[k].location # site_markers[l].location

\* (-east * lon_m / len) / lat_to_m
PerpLatDegOf(east, lon_m, len) ==
    NDiv(NMul(NDiv(NNeg(east), len), lon_m), I(lat_to_m))

\* (north * lat_to_m / len) / lon_m
PerpLonDegOf(north, lon_m, len) ==
    NDiv(NMul(NDiv(north, len), I(lat_to_m)), lon_m)

\* max(1, sqrt(north_m^2 + east_m^2))
FlooredLength(north_m, east_m) == NMax(I(1), SqrtSumSq(north_m, east_m))

\* the rows at idx are offset from the first of them by their centred index
\* times offset_m times the composition of (north, east) with lon_m and len
ComposedFrom(rows, idx, offset_m, north, east, lon_m, len) ==
    \A j \in 1..Len(idx) :
        OffsetBy(rows[idx[j]], rows[idx[1]],
                 NMul(CentredIndex(j - 1, Len(idx)), I(offset_m)),
                 PerpLatDegOf(east, lon_m, len), PerpLonDegOf(north, lon_m, len))

\* C23 (as stated): in a group of n > 1 links the per-metre perpendicular
\* offset in degrees is perpLatDeg = (-dLonM * lonToM / length) / latToM and
\* perpLonDeg = (dLatM * latToM / length) / lonToM, where dLatM = (toLat -
\* fromLat) * latToM and dLonM = (toLon - fromLon) * lonToM are the components
\* in metres and length = max(1, sqrt(dLatM^2 + dLonM^2))
C23_MetreComposition ==
    LinksSpread =>
        \A idx \in GroupsOut :
            Len(idx) > 1 =>
                ComposedFrom(links_paths.rows, idx, link_offset_m,
                             SegNorth(links_paths.rows[idx[1]]),
                             SegEast(links_paths.rows[idx[1]]),
                             lon_to_m(lat_mid(links_paths.rows[idx[1]])),
                             FlooredLength(SegNorth(links_paths.rows[idx[1]]),
                                           SegEast(links_paths.rows[idx[1]])))

\* C23 (amended): in a group of n > 1 links the per-metre perpendicular offset
\* in degrees is perpLatDeg = (-dLon * lonToM / length) / latToM and
\* perpLonDeg = (dLat * latToM / length) / lonToM, where dLat = toLat -
\* fromLat and dLon = toLon - fromLon are the components in degrees and
\* length = max(1, sqrt((dLat * latToM)^2 + (dLon * lonToM)^2))
C23_DegreeComposition ==
    LinksSpread =>
        \A idx \in GroupsOut :
            Len(idx) > 1 =>
                ComposedFrom(links_paths.rows, idx, link_offset_m,
                             dlat(links_paths.rows[idx[1]]),
                             dlon(links_paths.rows[idx[1]]),
                             lon_to_m(lat_mid(links_paths.rows[idx[1]])),
                             FlooredLength(SegNorth(links_paths.rows[idx[1]]),
                                           SegEast(links_paths.rows[idx[1]])))

\* the function has returned a group of two links whose segment runs east or
\* west and whose first member is moved in latitude
C23_Witness ==
    /\ pc = "returned"
    /\ \E idx \in GroupsOut :
          /\ Len(idx) = 2
          /\ dlon(links_paths.rows[idx[1]]) # I(0)
          /\ links_paths.rows[idx[1]].offset_from_lat
                 # links_paths.rows[idx[1]].from_lat

\* the four coordinates of r and q agree when each is formatted to 8 decimals
AgreeFormatted(r, q) ==
    /\ Fmt(r.from_lat) = Fmt(q.from_lat) /\ Fmt(r.from_lon) = Fmt(q.from_lon)
    /\ Fmt(r.to_lat) = Fmt(q.to_lat) /\ Fmt(r.to_lon) = Fmt(q.to_lon)

\* the positions of the links of rows that agree with r
Agreeing(r, rows) == {j \in 1..Len(rows) : AgreeFormatted(rows[j], r)}

\* out is emitted as a member of a group of n links whose first row is first:
\* its own endpoints when n = 1, and one of the n centred offsets otherwise
GroupedAs(out, r, first, n, offset_m) ==
    IF n = 1 THEN OffsetsAre(out, r)
    ELSE \E k \in 0..(n - 1) :
            OffsetBy(out, first, NMul(CentredIndex(k, n), I(offset_m)),
                     perp_lat_deg(first), perp_lon_deg(first))

\* the link r of rows is emitted as a member of the group of the links of
\* rows at the positions G
GroupedWith(r, rows, G, out, offset_m) ==
    GroupedAs(LinkRowOf(out, r.link_id), r,
              rows[CHOOSE j \in G : \A k \in G : j <= k], Cardinality(G), offset_m)

\* C24: two links are in the same group iff their four coordinates agree when
\* formatted to 8 decimals: every link is emitted as a member of the group of
\* the input links that agree with it, and the n of its offset index is the
\* number of these links
C24_GroupedByFormattedCoordinates ==
    LinksSpread =>
        \A i \in 1..Len(LinksIn) :
            GroupedWith(LinksIn[i], LinksIn, Agreeing(LinksIn[i], LinksIn),
                        links_paths.rows, link_offset_m)

\* the function has returned for two links that agree in the formatted
\* coordinates but not in the stored ones, and a third link that agrees with
\* neither; offset_m is not 0
C24_Witness ==
    /\ pc = "returned"
    /\ link_offset_m # 0
    /\ \E i, j, k \in 1..Len(LinksIn) :
          /\ i # j
          /\ AgreeFormatted(LinksIn[i], LinksIn[j])
          /\ LinksIn[i].from_lon # LinksIn[j].from_lon
          /\ ~AgreeFormatted(LinksIn[i], LinksIn[k])

\* the number of positions of G below i: the place of i in G, from 0
PlaceIn(G, i) == Cardinality({j \in G : j < i})

\* the link at position i of rows, one of the links at the positions G, is
\* emitted with the offset index of its place in G
LinkSlotByOrder(rows, i, G, out, offset_m) ==
    Cardinality(G) > 1 =>
        OffsetBy(LinkRowOf(out, rows[i].link_id),
                 rows[CHOOSE j \in G : \A k \in G : j <= k],
                 NMul(CentredIndex(PlaceIn(G, i), Cardinality(G)), I(offset_m)),
                 perp_lat_deg(rows[CHOOSE j \in G : \A k \in G : j <= k]),
                 perp_lon_deg(rows[CHOOSE j \in G : \A k \in G : j <= k]))

\* the site r of rows, which shares its coordinates with others, is emitted
\* at the angular slot of its place among them
SiteSlotByOrder(r, rows, out, dist_m) ==
    (SitesAt(r, rows) # {} /\ notna(r.lat) /\ notna(r.lon)) =>
        OnCircle(r, SiteRow(out, r.id), NDiv(I(dist_m), I(lat_to_m)),
                 LonDelta(dist_m, r.lat),
                 QNorm(360 * IndexInGroup(r, rows), 1 + Cardinality(SitesAt(r, rows))))

\* C25: in both stages the member that comes k-th (from 0) in input order
\* among the members of its group gets the angular slot / offset index k,
\* whatever the other groups are and wherever their members stand in the
\* input
C25_SlotsFollowInputOrder ==
    /\ (SitesSpread /\ sep_dup) =>
          \A i \in 1..Len(SitesIn) :
              SiteSlotByOrder(SitesIn[i], SitesIn, sites_vis.rows, sep_dist_m)
    /\ LinksSpread =>
          \A i \in 1..Len(LinksIn) :
              LinkSlotByOrder(LinksIn, i, Agreeing(LinksIn[i], LinksIn),
                              links_paths.rows, link_offset_m)

\* both functions have returned; the second site of a group of two is moved
\* to the west, and a group of two links, with a link of another group
\* standing between its members in the input, has its members moved to
\* different sides
C25_Witness ==
    /\ pc = "returned"
    /\ sep_dup
    /\ sep_dist_m > 0
    /\ \E i \in 1..Len(SitesIn) :
          /\ Cardinality(SitesAt(SitesIn[i], SitesIn)) = 1
          /\ IndexInGroup(SitesIn[i], SitesIn) = 1
          /\ notna(SitesIn[i].lat) /\ notna(SitesIn[i].lon)
          /\ NLt(SiteRow(sites_vis.rows, SitesIn[i].id).lon, SitesIn[i].lon)
    /\ Len(LinksIn) = 3
    /\ Agreeing(LinksIn[1], LinksIn) = {1, 3}
    /\ LinkRowOf(links_paths.rows, LinksIn[1].link_id).offset_from_lat
           # LinkRowOf(links_paths.rows, LinksIn[3].link_id).offset_from_lat

\* the links of df in the group of r, in the order of df
OwnLinkGroup(df, r) ==
    Frame(df.columns,
          SelectRows(df.rows, [j \in 1..Len(df.rows) |-> AgreeFormatted(df.rows[j], r)]))

\* the sites of rows at the coordinates of r, in the order of rows
OwnSiteGroup(rows, r) ==
    DataFrame(SelectRows(rows, [j \in 1..Len(rows) |->
                                   rows[j].lat = r.lat /\ rows[j].lon = r.lon]))

\* the rows of out for the links of alone, in the order of out
LinkRowsFor(out, alone) ==
    SelectRows(out, [j \in 1..Len(out) |->
                        \E k \in 1..Len(alone.rows) : alone.rows[k].link_id = out[j].link_id])

\* the rows of out for the sites of alone, in the order of out
SiteRowsFor(out, alone) ==
    SelectRows(out, [j \in 1..Len(out) |->
                        \E k \in 1..Len(alone.rows) : alone.rows[k].id = out[j].id])

\* the links of alone are emitted in out as they are when they are the only
\* input
LinkAsAlone(out, alone, offset_m) ==
    LinkRowsFor(out, alone) = _spread_overlapping_links(alone, offset_m).rows

\* the sites of alone are emitted in out as they are when they are the only
\* input
SiteAsAlone(out, alone, dist_m, enabled) ==
    SiteRowsFor(out, alone) = _spread_overlaps(alone, dist_m, enabled).rows

\* C26: the emitted rows of the links of one group are the ones the function
\* emits for the links of this group alone, with the same offset_m, and the
\* emitted rows of the sites at one pair of coordinates are the ones emitted
\* for these sites alone; the links and sites of other groups change nothing
C26_NoCrossGroupDependency ==
    /\ SitesSpread =>
          \A i \in 1..Len(SitesIn) :
              IndexInGroup(SitesIn[i], SitesIn) = 0 =>
                  SiteAsAlone(sites_vis.rows, OwnSiteGroup(SitesIn, SitesIn[i]),
                              sep_dist_m, sep_dup)
    /\ LinksSpread =>
          \A i \in 1..Len(LinksIn) :
              PlaceIn(Agreeing(LinksIn[i], LinksIn), i) = 0 =>
                  LinkAsAlone(links_paths.rows,
                              OwnLinkGroup(DropNa(links_merge), LinksIn[i]), link_offset_m)

\* both functions have returned; a group of two sites is spread next to
\* sites elsewhere, and a group of two links is moved apart while the first
\* link of the input belongs to another group
C26_Witness ==
    /\ pc = "returned"
    /\ sep_dup
    /\ sep_dist_m > 0
    /\ \E i, j \in 1..Len(SitesIn) :
          /\ SitesAt(SitesIn[i], SitesIn) # {}
          /\ SiteRow(sites_vis.rows, SitesIn[i].id).lon # SitesIn[i].lon
          /\ SitesIn[j].lat # SitesIn[i].lat
    /\ Len(LinksIn) = 3
    /\ Agreeing(LinksIn[2], LinksIn) = {2, 3}
    /\ LinkRowOf(links_paths.rows, LinksIn[2].link_id).offset_from_lat
           # LinkRowOf(links_paths.rows, LinksIn[3].link_id).offset_from_lat

\* the positions of the links of rows between exactly the coordinates of r,
\* in its direction
ExactLike(r, rows) ==
    {j \in 1..Len(rows) :
        /\ rows[j].from_lat = r.from_lat /\ rows[j].from_lon = r.from_lon
        /\ rows[j].to_lat = r.to_lat /\ rows[j].to_lon = r.to_lon}

\* the offset segment of the emitted row q, without its direction
UndirectedSegment(q) ==
    {<<q.offset_from_lat, q.offset_from_lon>>, <<q.offset_to_lat, q.offset_to_lon>>}

\* the offset segments of the links of rows at the positions G
SegmentsOf(rows, G, out) ==
    {UndirectedSegment(LinkRowOf(out, rows[j].link_id)) : j \in G}

\* C27 as stated: n links A->B and n links B->A between the same two
\* coordinates get the same set of n undirected offset segments
C27_OppositeGroupsCoincide ==
    LinksSpread =>
        \A i, j \in 1..Len(LinksIn) :
            (/\ Reversed(LinksIn[i], LinksIn[j])
             /\ Cardinality(ExactLike(LinksIn[i], LinksIn))
                    = Cardinality(ExactLike(LinksIn[j], LinksIn)))
            => SegmentsOf(LinksIn, ExactLike(LinksIn[i], LinksIn), links_paths.rows)
                   = SegmentsOf(LinksIn, ExactLike(LinksIn[j], LinksIn), links_paths.rows)

\* C27, amended: n links A->B and n links B->A between two coordinates that
\* differ in their first 8 decimals, with no other link in their two groups,
\* get the same set of n undirected offset segments
C27_OppositeGroupsCoincideInKey ==
    LinksSpread =>
        \A i, j \in 1..Len(LinksIn) :
            (/\ Reversed(LinksIn[i], LinksIn[j])
             /\ EndsDifferInKey(LinksIn[i])
             /\ Agreeing(LinksIn[i], LinksIn) = ExactLike(LinksIn[i], LinksIn)
             /\ Agreeing(LinksIn[j], LinksIn) = ExactLike(LinksIn[j], LinksIn)
             /\ Cardinality(ExactLike(LinksIn[i], LinksIn))
                    = Cardinality(ExactLike(LinksIn[j], LinksIn)))
            => SegmentsOf(LinksIn, ExactLike(LinksIn[i], LinksIn), links_paths.rows)
                   = SegmentsOf(LinksIn, ExactLike(LinksIn[j], LinksIn), links_paths.rows)

\* the function has returned for two links (0, 1) -> (0, 0) and two links
\* (0, 0) -> (0, 1), and the two links of each direction are moved apart
C27_Witness ==
    /\ pc = "returned"
    /\ Len(LinksIn) = 4
    /\ Reversed(LinksIn[1], LinksIn[4])
    /\ EndsDifferInKey(LinksIn[1])
    /\ ExactLike(LinksIn[1], LinksIn) = {1, 2}
    /\ ExactLike(LinksIn[4], LinksIn) = {3, 4}
    /\ Cardinality(SegmentsOf(LinksIn, {1, 2}, links_paths.rows)) = 2

-----------------------------------------------------------------------------
(* Properties of the dialogs, the import and the cache.                    *)

\* the rows of the three tables
Tables(d) == <<d.clients, d.sites, d.links>>

\* C21: after every operation that commits a change to clients, sites or
\* links, an import that commits some rows and then fails included, the
\* cached result of load_data is cleared before the next render: the result
\* a render gets from load_data is never older than the stored tables
C21_RenderUsesCommittedData ==
    Rendered => <<ui.cache.clients, ui.cache.sites, ui.cache.links>> = Tables(db)

\* C22: after any sequence of site operations (add-site dialog, edit-site
\* dialog, CSV import) every stored site has its latitude in [-90, 90] and
\* its longitude in [-180, 180]
C22_StoredCoordinatesInRange ==
    \A s \in db.sites :
        /\ -90 <= s.lat_dec /\ s.lat_dec <= 90
        /\ -180 <= s.long_dec /\ s.long_dec <= 180

\* C28: importing the same CSV file a second time, with no other change in
\* between, inserts no client, no site and no link, also for rows whose
\* APPL_ID is empty: right after an import of a file, the import of that file
\* leaves the three tables as they are
C28_SecondImportInsertsNothing ==
    ui.op = "csv_import" =>
        Tables(csv_import(db, CsvRows(ui.imported)).db) = Tables(db)

\* every link of d has its client and its two sites stored
Intact(d) ==
    \A l \in d.links :
        /\ l.client_id \in {c.client_id : c \in d.clients}
        /\ l.site_from \in {s.site_id : s \in d.sites}
        /\ l.site_to \in {s.site_id : s \in d.sites}

\* the client id / the site id is used by a link of d
ClientUsed(d, id) == \E l \in d.links : l.client_id = id

SiteUsed(d, id) == \E l \in d.links : l.site_from = id \/ l.site_to = id

\* a click on "Hapus" for a client or a site: when it reports an error the
\* tables are as before, and what it removed was used by no link
DeleteKeepsUsed(before, after, notice) ==
    /\ notice = "error" => Tables(after) = Tables(before)
    /\ \A c \in before.clients \ after.clients : ~ClientUsed(before, c.client_id)
    /\ \A s \in before.sites \ after.sites : ~SiteUsed(before, s.site_id)

\* C29: after every add, edit, delete and CSV import every stored link's
\* client_id refers to a stored client and its site_from and site_to refer to
\* stored sites; deleting a client or a site that is still used by a link
\* reports an error and leaves clients, sites and links unchanged
C29_ReferentialIntegrity ==
    [][/\ Intact(db')
       /\ (Rendered /\ ui'.op \in {"delete_client", "delete_site"}) =>
              DeleteKeepsUsed(db, db', ui'.notice)]_vars

\* the deletion of a client that a link uses has just failed
C29_Witness ==
    /\ ui.op = "delete_client"
    /\ ui.notice = "error"
    /\ \E l \in db.links : \E c \in ui.cache.clients : l.client_id = c.client_id
    /\ \E s \in db.sites : SiteUsed(db, s.site_id)

\* the rows a step added to the clients table
NewClients(before, after) == after.clients \ before.clients

\* what one "Simpan" with a non-empty name does, apart from what precedes the
\* second INSERT: at most two attempts, the second only after the first
\* raised; at most one new row and no row lost; success only with exactly one
\* new row and then an empty cache; an error and no new row when both fail
AddClientOnce(before, after, session, name) ==
    /\ session.attempts \in 1..2
    /\ session.attempts = 2 => ~INSERT_clients(before, strip(name)).ok
    /\ before.clients \subseteq after.clients
    /\ Cardinality(NewClients(before, after)) <= 1
    /\ session.notice = "success" =>
           /\ Cardinality(NewClients(before, after)) = 1
           /\ session.cache = NoCache
    /\ (session.attempts = 2 /\ NewClients(before, after) = {}) =>
           /\ session.notice = "error"
           /\ Tables(after) = Tables(before)

\* an empty or blank name: no INSERT, an error, nothing committed
AddClientBlank(before, after, session) ==
    /\ session.attempts = 0
    /\ session.notice = "error"
    /\ after = before

\* C30 as stated: one "Simpan" in the add-client dialog with a non-empty name
\* makes at most two INSERT attempts, the second only after the first raised
\* and the id sequence was reseeded, commits at most one new client row,
\* reports success only when exactly one row was committed and then clears
\* the data cache; when both attempts fail it reports an error and commits
\* nothing; an empty or blank name commits nothing
C30_RetryAfterReseed ==
    [][\A name \in NameInputs :
          AddClientWith(name) =>
              IF strip(name) = <<>> THEN AddClientBlank(db, db', ui')
              ELSE /\ AddClientOnce(db, db', ui', name)
                   /\ ui'.attempts = 2 => ui'.reseeded]_vars

\* C30, amended: as above, but the second INSERT follows the call of
\* reseed_clients_id_sequence, which sets the sequence to MAX(client_id) when
\* the clients table has rows and fails silently, leaving the sequence as it
\* was, when the table is empty
C30_RetryAfterReseedCall ==
    [][\A name \in NameInputs :
          AddClientWith(name) =>
              IF strip(name) = <<>> THEN AddClientBlank(db, db', ui')
              ELSE /\ AddClientOnce(db, db', ui', name)
                   /\ ui'.attempts = 2 => (ui'.reseeded <=> db.clients # {})
                   /\ (ui'.attempts = 2 /\ db.clients # {}) =>
                          db'.clients_seq >= MaxId({c.client_id : c \in db.clients})
                   /\ (ui'.attempts = 2 /\ db.clients = {}) =>
                          NewClients(db, db') = {}]_vars

\* the first INSERT raised on a used id, the sequence was reseeded and the
\* second INSERT stored the client
C30_Witness ==
    /\ ui.op = "add_client"
    /\ ui.attempts = 2
    /\ ui.reseeded
    /\ ui.notice = "success"
    /\ ui.cache = NoCache
    /\ Cardinality(db.clients) = 2

====
